---- MODULE Spec2Model ----
(***************************************************************************)
(* Digits packing puzzle: the segment catalog (lib/segments), the rotation *)
(* engine (lib/rotation), the occupancy helpers and the game reducer       *)
(* (lib/gameState), modelled as a state machine whose actions are the      *)
(* reducer's cases dispatched by the components.                           *)
(***************************************************************************)
EXTENDS Integers, Naturals, Sequences, FiniteSets, TLC

VARIABLES board, inventory, dragState, pre, hist, steps, limit, probe

vars == <<board, inventory, dragState, pre, hist, steps, limit, probe>>

(***************************************************************************)
(* Bounds of the exploration.                                              *)
(***************************************************************************)
\* number of dispatched actions explored from the initial state
MaxSteps == 5
\* the same, for the deeper exploration SpecDeep
MaxStepsDeep == 6
\* how many of the ten pieces the player touches (the first ones of ActiveOrder)
NumActive == 2
\* how many drop positions the player tries (the first ones of DropOrder)
NumPositions == 12
\* number of successive rotatePiece calls on one piece
MaxTurns == 4
\* checkCollision is called at the positions (-1..MaxProbeX) x (-1..MaxProbeY)
MaxProbeX == 5
MaxProbeY == 4
\* ... against every set of the first NumOccupied ids of OccupiedOrder
NumOccupied == 3
\* segmentToId is called on the segments with coordinates in -2..MaxCoord
MaxCoord == 7

\* handlers run in the pointer specification, and hover positions drawn
MaxPointerSteps == 4

NumHover == 3

\* pages of the challenge document, and handlers run in the viewer
MaxPages == 3

MaxClicks == 4

ActiveOrder == <<1, 7, 4, 0, 2, 3, 5, 6, 8, 9>>

ActiveNumbers == {ActiveOrder[i] : i \in 1..NumActive}

\* (x, y) pairs: the positions (-1..2) x (-1..1) around the board's top-left
\* corner, then the far corner (4, 3), then the rest of (-1..5) x (-1..4)
DropOrder ==
  <<
     <<0 - 1, 0 - 1>>, <<0, 0 - 1>>, <<1, 0 - 1>>, <<2, 0 - 1>>,
     <<0 - 1, 0>>, <<0, 0>>, <<1, 0>>, <<2, 0>>,
     <<0 - 1, 1>>, <<0, 1>>, <<1, 1>>, <<2, 1>>,
     <<4, 3>>, <<3, 0 - 1>>, <<4, 0 - 1>>, <<5, 0 - 1>>,
     <<3, 0>>, <<4, 0>>, <<5, 0>>, <<3, 1>>,
     <<4, 1>>, <<5, 1>>, <<0 - 1, 2>>, <<0, 2>>,
     <<1, 2>>, <<2, 2>>, <<3, 2>>, <<4, 2>>,
     <<5, 2>>, <<0 - 1, 3>>, <<0, 3>>, <<1, 3>>,
     <<2, 3>>, <<3, 3>>, <<5, 3>>, <<0 - 1, 4>>,
     <<0, 4>>, <<1, 4>>, <<2, 4>>, <<3, 4>>,
     <<4, 4>>, <<5, 4>>
  >>

Positions == {[x |-> DropOrder[i][1], y |-> DropOrder[i][2]] : i \in 1..NumPositions}

Directions == {"clockwise", "counterclockwise"}

(***************************************************************************)
(* types.ts                                                                *)
(***************************************************************************)
PieceNumber == 0..9

Rotation == {0, 90, 180, 270}

\* JavaScript's null (dragState) and undefined (optional fields of DragState)
null == [tag |-> "null"]

undefined == [tag |-> "undefined"]

Segment(x, y, orientation) == [x |-> x, y |-> y, orientation |-> orientation]

BoardPosition(x, y) == [x |-> x, y |-> y]

(***************************************************************************)
(* lib/segments.ts                                                         *)
(***************************************************************************)
\* mutant: digit 0 as the usual six-segment zero (a, b, c, d, e, f)
SEGMENT_PATTERNS_sixSegmentZero ==
  [n \in PieceNumber |->
    CASE n = 0 -> << Segment(0, 0, "horizontal"), Segment(1, 0, "vertical"),
                     Segment(1, 1, "vertical"), Segment(0, 2, "horizontal"),
                     Segment(0, 1, "vertical"), Segment(0, 0, "vertical") >>
      [] n = 1 -> << Segment(1, 0, "vertical"), Segment(1, 1, "vertical") >>
      [] n = 2 -> << Segment(0, 0, "horizontal"), Segment(1, 0, "vertical"),
                     Segment(0, 1, "horizontal"), Segment(0, 1, "vertical"),
                     Segment(0, 2, "horizontal") >>
      [] n = 3 -> << Segment(0, 0, "horizontal"), Segment(1, 0, "vertical"),
                     Segment(0, 1, "horizontal"), Segment(1, 1, "vertical"),
                     Segment(0, 2, "horizontal") >>
      [] n = 4 -> << Segment(0, 0, "vertical"), Segment(0, 1, "horizontal"),
                     Segment(1, 0, "vertical"), Segment(1, 1, "vertical") >>
      [] n = 5 -> << Segment(0, 0, "horizontal"), Segment(0, 0, "vertical"),
                     Segment(0, 1, "horizontal"), Segment(1, 1, "vertical"),
                     Segment(0, 2, "horizontal") >>
      [] n = 6 -> << Segment(0, 0, "horizontal"), Segment(0, 0, "vertical"),
                     Segment(0, 1, "horizontal"), Segment(0, 1, "vertical"),
                     Segment(0, 2, "horizontal"), Segment(1, 1, "vertical") >>
      [] n = 7 -> << Segment(0, 0, "horizontal"), Segment(1, 0, "vertical"),
                     Segment(1, 1, "vertical") >>
      [] n = 8 -> << Segment(0, 0, "horizontal"), Segment(1, 0, "vertical"),
                     Segment(1, 1, "vertical"), Segment(0, 2, "horizontal"),
                     Segment(0, 1, "vertical"), Segment(0, 0, "vertical"),
                     Segment(0, 1, "horizontal") >>
      [] n = 9 -> << Segment(0, 0, "horizontal"), Segment(1, 0, "vertical"),
                     Segment(1, 1, "vertical"), Segment(0, 2, "horizontal"),
                     Segment(0, 0, "vertical"), Segment(0, 1, "horizontal") >>]

SEGMENT_PATTERNS ==
  [n \in PieceNumber |->
    CASE n = 0 -> << Segment(0, 0, "horizontal"), Segment(1, 0, "vertical"),
                     Segment(0, 1, "horizontal"), Segment(0, 0, "vertical") >>
      [] n = 1 -> << Segment(1, 0, "vertical"), Segment(1, 1, "vertical") >>
      [] n = 2 -> << Segment(0, 0, "horizontal"), Segment(1, 0, "vertical"),
                     Segment(0, 1, "horizontal"), Segment(0, 1, "vertical"),
                     Segment(0, 2, "horizontal") >>
      [] n = 3 -> << Segment(0, 0, "horizontal"), Segment(1, 0, "vertical"),
                     Segment(0, 1, "horizontal"), Segment(1, 1, "vertical"),
                     Segment(0, 2, "horizontal") >>
      [] n = 4 -> << Segment(0, 0, "vertical"), Segment(0, 1, "horizontal"),
                     Segment(1, 0, "vertical"), Segment(1, 1, "vertical") >>
      [] n = 5 -> << Segment(0, 0, "horizontal"), Segment(0, 0, "vertical"),
                     Segment(0, 1, "horizontal"), Segment(1, 1, "vertical"),
                     Segment(0, 2, "horizontal") >>
      [] n = 6 -> << Segment(0, 0, "horizontal"), Segment(0, 0, "vertical"),
                     Segment(0, 1, "horizontal"), Segment(0, 1, "vertical"),
                     Segment(0, 2, "horizontal"), Segment(1, 1, "vertical") >>
      [] n = 7 -> << Segment(0, 0, "horizontal"), Segment(1, 0, "vertical"),
                     Segment(1, 1, "vertical") >>
      [] n = 8 -> << Segment(0, 0, "horizontal"), Segment(1, 0, "vertical"),
                     Segment(1, 1, "vertical"), Segment(0, 2, "horizontal"),
                     Segment(0, 1, "vertical"), Segment(0, 0, "vertical"),
                     Segment(0, 1, "horizontal") >>
      [] n = 9 -> << Segment(0, 0, "horizontal"), Segment(1, 0, "vertical"),
                     Segment(1, 1, "vertical"), Segment(0, 2, "horizontal"),
                     Segment(0, 0, "vertical"), Segment(0, 1, "horizontal") >>]

\* mutant: the orientation letter left out of the id
segmentToId_withoutOrientation(segment) ==
  ToString(segment.x) \o "," \o ToString(segment.y)

\* `${segment.x},${segment.y},${orient}`
segmentToId(segment) ==
  LET orient == IF segment.orientation = "horizontal" THEN "h" ELSE "v"
  IN  ToString(segment.x) \o "," \o ToString(segment.y) \o "," \o orient

\* mutant: the horizontal loop stops at y < 4
getAllBoardSegments_fourRows ==
  [i \in 1..20 |-> Segment((i - 1) % 5, (i - 1) \div 5, "horizontal")]
  \o [i \in 1..24 |-> Segment((i - 1) \div 4, (i - 1) % 4, "vertical")]

\* the two nested loops, in push order
getAllBoardSegments ==
  [i \in 1..25 |-> Segment((i - 1) % 5, (i - 1) \div 5, "horizontal")]
  \o [i \in 1..24 |-> Segment((i - 1) \div 4, (i - 1) % 4, "vertical")]

(***************************************************************************)
(* lib/rotation.ts                                                         *)
(***************************************************************************)
SetMin(S) == CHOOSE m \in S : \A k \in S : m <= k

SetMax(S) == CHOOSE m \in S : \A k \in S : m >= k

\* the patterns are never empty, so the Infinity start values never survive
getBoundingBox(segments) ==
  LET idx == 1..Len(segments)
  IN  [minX |-> SetMin({segments[i].x : i \in idx}),
       minY |-> SetMin({segments[i].y : i \in idx}),
       maxX |-> SetMax({IF segments[i].orientation = "horizontal"
                          THEN segments[i].x + 1 ELSE segments[i].x : i \in idx}),
       maxY |-> SetMax({IF segments[i].orientation = "horizontal"
                          THEN segments[i].y ELSE segments[i].y + 1 : i \in idx})]

\* mutant: the coordinates are turned, the orientation is kept
rotateSegment90Clockwise_keepsOrientation(segment) ==
  IF segment.orientation = "horizontal"
    THEN Segment(segment.y, (0 - segment.x) - 1, "horizontal")
    ELSE Segment(segment.y, 0 - segment.x, "vertical")

rotateSegment90Clockwise(segment) ==
  IF segment.orientation = "horizontal"
    THEN Segment(segment.y, (0 - segment.x) - 1, "vertical")
    ELSE Segment(segment.y, 0 - segment.x, "horizontal")

\* mutant: the segments are not translated
normalizeSegments_keepsOffsets(segments) == segments

normalizeSegments(segments) ==
  LET bbox == getBoundingBox(segments)
  IN  [i \in 1..Len(segments) |->
        Segment(segments[i].x - bbox.minX, segments[i].y - bbox.minY,
                segments[i].orientation)]

RECURSIVE rotateLoop(_, _)
\* for (let i = 0; i < times; i++) rotated = rotated.map(rotateSegment90Clockwise)
rotateLoop(rotated, times) ==
  IF times <= 0 THEN rotated
  ELSE rotateLoop([i \in 1..Len(rotated) |-> rotateSegment90Clockwise(rotated[i])],
                  times - 1)

rotateSegments(segments, rotation) ==
  IF rotation = 0 THEN segments
  ELSE normalizeSegments(rotateLoop(segments, rotation \div 90))

\* mutant: the two directions swapped
rotatePiece_swappedDirections(piece, direction) ==
  LET delta == IF direction = "clockwise" THEN 0 - 90 ELSE 90
      newRotation == (piece.rotation + delta + 360) % 360
  IN  [piece EXCEPT !.rotation = newRotation,
                    !.segments = rotateSegments(SEGMENT_PATTERNS[piece.number], newRotation)]

\* mutant: the cached segments are turned instead of the base pattern
rotatePiece_turnsCachedSegments(piece, direction) ==
  LET delta == IF direction = "clockwise" THEN 90 ELSE 0 - 90
      newRotation == (piece.rotation + delta + 360) % 360
  IN  [piece EXCEPT !.rotation = newRotation,
                    !.segments = rotateSegments(piece.segments, (delta + 360) % 360)]

\* mutant: the new rotation is not reduced modulo 360
rotatePiece_noWrap(piece, direction) ==
  LET delta == IF direction = "clockwise" THEN 90 ELSE 0 - 90
      newRotation == piece.rotation + delta
  IN  [piece EXCEPT !.rotation = newRotation,
                    !.segments = rotateSegments(SEGMENT_PATTERNS[piece.number],
                                                (newRotation + 360) % 360)]

rotatePiece(piece, direction) ==
  LET delta == IF direction = "clockwise" THEN 90 ELSE 0 - 90
      newRotation == (piece.rotation + delta + 360) % 360
      baseSegments == SEGMENT_PATTERNS[piece.number]
      rotatedSegments == rotateSegments(baseSegments, newRotation)
  IN  [piece EXCEPT !.rotation = newRotation, !.segments = rotatedSegments]

\* mutant: the stored segments field is read instead of being derived
getPieceSegments_readsStoredSegments(piece) == piece.segments

getPieceSegments(piece) ==
  LET baseSegments == SEGMENT_PATTERNS[piece.number]
  IN  rotateSegments(baseSegments, piece.rotation)

(***************************************************************************)
(* lib/gameState.tsx: helpers                                              *)
(***************************************************************************)
pieceId(i) == "piece-" \o ToString(i)

\* inventory and board of getInitialState(); dragState starts as null
getInitialState ==
  [board |-> [placedPieces |-> << >>, occupiedSegments |-> {},
              gridWidth |-> 5, gridHeight |-> 4, totalSegments |-> 49],
   inventory |-> [k \in 1..10 |->
                    [id |-> pieceId(k - 1), number |-> k - 1, rotation |-> 0,
                     segments |-> SEGMENT_PATTERNS[k - 1]]],
   dragState |-> null]

getPieceSegmentPositions(piece, position) ==
  LET segments == getPieceSegments(piece)
  IN  [i \in 1..Len(segments) |->
        Segment(position.x + segments[i].x, position.y + segments[i].y,
                segments[i].orientation)]

\* mutant: horizontal segments tested against the vertical segments' x range
outOfBounds_horizontalUpToFive(segment) ==
  IF segment.orientation = "horizontal"
    THEN segment.x < 0 \/ segment.x > 5 \/ segment.y < 0 \/ segment.y > 4
    ELSE segment.x < 0 \/ segment.x > 5 \/ segment.y < 0 \/ segment.y >= 4

\* the out-of-bounds test of checkCollision's loop body
outOfBounds(segment) ==
  IF segment.orientation = "horizontal"
    THEN segment.x < 0 \/ segment.x >= 5 \/ segment.y < 0 \/ segment.y > 4
    ELSE segment.x < 0 \/ segment.x > 5 \/ segment.y < 0 \/ segment.y >= 4

\* mutant: the out-of-bounds test left out
checkCollision_ignoresBounds(piece, position, occupiedSegments) ==
  LET pieceSegments == getPieceSegmentPositions(piece, position)
  IN  \E i \in 1..Len(pieceSegments) :
        segmentToId(pieceSegments[i]) \in occupiedSegments

checkCollision(piece, position, occupiedSegments) ==
  LET pieceSegments == getPieceSegmentPositions(piece, position)
  IN  \E i \in 1..Len(pieceSegments) :
        \/ segmentToId(pieceSegments[i]) \in occupiedSegments
        \/ outOfBounds(pieceSegments[i])

\* mutant: the input set returned instead of the updated copy
updateOccupiedSegments_returnsInput(occupiedSegments, piece, position, operation) ==
  occupiedSegments

\* mutant: "remove" handled like "add"
updateOccupiedSegments_neverRemoves(occupiedSegments, piece, position, operation) ==
  LET segments == getPieceSegmentPositions(piece, position)
  IN  occupiedSegments \cup {segmentToId(segments[i]) : i \in 1..Len(segments)}

\* mutant: "add" deletes the ids that are already present
updateOccupiedSegments_addToggles(occupiedSegments, piece, position, operation) ==
  LET segments == getPieceSegmentPositions(piece, position)
      ids == {segmentToId(segments[i]) : i \in 1..Len(segments)}
  IN  IF operation = "add" THEN (occupiedSegments \ ids) \cup (ids \ occupiedSegments)
                           ELSE occupiedSegments \ ids

updateOccupiedSegments(occupiedSegments, piece, position, operation) ==
  LET segments == getPieceSegmentPositions(piece, position)
      ids == {segmentToId(segments[i]) : i \in 1..Len(segments)}
  IN  IF operation = "add" THEN occupiedSegments \cup ids
                           ELSE occupiedSegments \ ids

(***************************************************************************)
(* lib/gameState.tsx: gameReducer, one operator per case.  Each maps the   *)
(* GameState record and the action's payload to the next GameState.        *)
(***************************************************************************)
\* mutant: an inventory pickup takes the piece out of inventory
PICK_UP_PIECE_removesFromInventory(state, piece, source, position) ==
  IF source = "board" /\ position # undefined
    THEN [state EXCEPT
            !.board.occupiedSegments =
               updateOccupiedSegments(state.board.occupiedSegments, piece, position, "remove"),
            !.dragState = [piece |-> piece, sourceType |-> source,
                           sourcePosition |-> position, sourcePiece |-> piece]]
    ELSE [state EXCEPT
            !.inventory = SelectSeq(state.inventory, LAMBDA p : p.id # piece.id),
            !.dragState = [piece |-> piece, sourceType |-> source,
                           sourcePosition |-> undefined, sourcePiece |-> undefined]]

\* mutant: the dragged piece starts at rotation 0
PICK_UP_PIECE_resetsRotation(state, piece, source, position) ==
  IF source = "board" /\ position # undefined
    THEN [state EXCEPT
            !.board.occupiedSegments =
               updateOccupiedSegments(state.board.occupiedSegments, piece, position, "remove"),
            !.dragState = [piece |-> [piece EXCEPT !.rotation = 0,
                                                       !.segments = SEGMENT_PATTERNS[piece.number]], sourceType |-> source,
                           sourcePosition |-> position, sourcePiece |-> piece]]
    ELSE [state EXCEPT
            !.dragState = [piece |-> [piece EXCEPT !.rotation = 0,
                                                       !.segments = SEGMENT_PATTERNS[piece.number]], sourceType |-> source,
                           sourcePosition |-> undefined, sourcePiece |-> undefined]]

\* mutant: a pickup dispatched during a drag ends the drag
PICK_UP_PIECE_releasesWhenDragging(state, piece, source, position) ==
  IF state.dragState # null THEN [state EXCEPT !.dragState = null] ELSE
  IF source = "board" /\ position # undefined
    THEN [state EXCEPT
            !.board.occupiedSegments =
               updateOccupiedSegments(state.board.occupiedSegments, piece, position, "remove"),
            !.dragState = [piece |-> piece, sourceType |-> source,
                           sourcePosition |-> position, sourcePiece |-> piece]]
    ELSE [state EXCEPT
            !.dragState = [piece |-> piece, sourceType |-> source,
                           sourcePosition |-> undefined, sourcePiece |-> undefined]]

PICK_UP_PIECE(state, piece, source, position) ==
  IF source = "board" /\ position # undefined
    THEN [state EXCEPT
            !.board.occupiedSegments =
               updateOccupiedSegments(state.board.occupiedSegments, piece, position, "remove"),
            !.dragState = [piece |-> piece, sourceType |-> source,
                           sourcePosition |-> position, sourcePiece |-> piece]]
    ELSE [state EXCEPT
            !.dragState = [piece |-> piece, sourceType |-> source,
                           sourcePosition |-> undefined, sourcePiece |-> undefined]]

\* mutant: the live, possibly rotated, piece restored instead of the snapshot
dropRestorePiece_livePiece(ds) == ds.piece

\* const restorePiece = sourcePiece ?? piece   (DROP_PIECE, collision branch)
dropRestorePiece(ds) ==
  IF ds.sourcePiece # undefined THEN ds.sourcePiece ELSE ds.piece

\* mutant: a rejected drop of a board piece restores the occupancy but keeps the drag
DROP_PIECE_keepsDragOnBoardRejection(state, position) ==
  IF state.dragState = null THEN state
  ELSE
    LET piece == state.dragState.piece
        sourceType == state.dragState.sourceType
        sourcePosition == state.dragState.sourcePosition
        collision == checkCollision(piece, position, state.board.occupiedSegments)
        newOccupiedSegments ==
          updateOccupiedSegments(state.board.occupiedSegments, piece, position, "add")
    IN  IF collision /\ sourceType = "inventory"
          THEN [state EXCEPT !.dragState = null]
        ELSE IF collision /\ sourcePosition # undefined
          THEN [state EXCEPT
                  !.board.occupiedSegments =
                     updateOccupiedSegments(state.board.occupiedSegments,
                                            dropRestorePiece(state.dragState),
                                            sourcePosition, "add")]
        ELSE IF sourceType = "inventory"
          THEN [state EXCEPT
                  !.board.placedPieces =
                     Append(state.board.placedPieces,
                            [piece |-> piece, position |-> position]),
                  !.board.occupiedSegments = newOccupiedSegments,
                  !.inventory = SelectSeq(state.inventory, LAMBDA p : p.id # piece.id),
                  !.dragState = null]
        ELSE IF sourcePosition # undefined
          THEN [state EXCEPT
                  !.board.placedPieces =
                     [i \in 1..Len(state.board.placedPieces) |->
                        IF state.board.placedPieces[i].piece.id = piece.id
                          THEN [piece |-> piece, position |-> position]
                          ELSE state.board.placedPieces[i]],
                  !.board.occupiedSegments = newOccupiedSegments,
                  !.dragState = null]
        ELSE [state EXCEPT !.dragState = null]

\* mutant: a board drop removes the entry and appends the new one
DROP_PIECE_movesEntryToEnd(state, position) ==
  IF state.dragState = null THEN state
  ELSE
    LET piece == state.dragState.piece
        sourceType == state.dragState.sourceType
        sourcePosition == state.dragState.sourcePosition
        collision == checkCollision(piece, position, state.board.occupiedSegments)
        newOccupiedSegments ==
          updateOccupiedSegments(state.board.occupiedSegments, piece, position, "add")
    IN  IF collision /\ sourceType = "inventory"
          THEN [state EXCEPT !.dragState = null]
        ELSE IF collision /\ sourcePosition # undefined
          THEN [state EXCEPT
                  !.board.occupiedSegments =
                     updateOccupiedSegments(state.board.occupiedSegments,
                                            dropRestorePiece(state.dragState),
                                            sourcePosition, "add"),
                  !.dragState = null]
        ELSE IF sourceType = "inventory"
          THEN [state EXCEPT
                  !.board.placedPieces =
                     Append(state.board.placedPieces,
                            [piece |-> piece, position |-> position]),
                  !.board.occupiedSegments = newOccupiedSegments,
                  !.inventory = SelectSeq(state.inventory, LAMBDA p : p.id # piece.id),
                  !.dragState = null]
        ELSE IF sourcePosition # undefined
          THEN [state EXCEPT
                  !.board.placedPieces =
                     Append(SelectSeq(state.board.placedPieces,
                                      LAMBDA p : p.piece.id # piece.id),
                            [piece |-> piece, position |-> position]),
                  !.board.occupiedSegments = newOccupiedSegments,
                  !.dragState = null]
        ELSE [state EXCEPT !.dragState = null]

DROP_PIECE(state, position) ==
  IF state.dragState = null THEN state
  ELSE
    LET piece == state.dragState.piece
        sourceType == state.dragState.sourceType
        sourcePosition == state.dragState.sourcePosition
        collision == checkCollision(piece, position, state.board.occupiedSegments)
        newOccupiedSegments ==
          updateOccupiedSegments(state.board.occupiedSegments, piece, position, "add")
    IN  IF collision /\ sourceType = "inventory"
          THEN [state EXCEPT !.dragState = null]
        ELSE IF collision /\ sourcePosition # undefined
          THEN [state EXCEPT
                  !.board.occupiedSegments =
                     updateOccupiedSegments(state.board.occupiedSegments,
                                            dropRestorePiece(state.dragState),
                                            sourcePosition, "add"),
                  !.dragState = null]
        ELSE IF sourceType = "inventory"
          THEN [state EXCEPT
                  !.board.placedPieces =
                     Append(state.board.placedPieces,
                            [piece |-> piece, position |-> position]),
                  !.board.occupiedSegments = newOccupiedSegments,
                  !.inventory = SelectSeq(state.inventory, LAMBDA p : p.id # piece.id),
                  !.dragState = null]
        ELSE IF sourcePosition # undefined
          THEN [state EXCEPT
                  !.board.placedPieces =
                     [i \in 1..Len(state.board.placedPieces) |->
                        IF state.board.placedPieces[i].piece.id = piece.id
                          THEN [piece |-> piece, position |-> position]
                          ELSE state.board.placedPieces[i]],
                  !.board.occupiedSegments = newOccupiedSegments,
                  !.dragState = null]
        ELSE [state EXCEPT !.dragState = null]

\* mutant: cancelling an inventory drag puts the piece into inventory again
CANCEL_DRAG_returnsPiece(state) ==
  IF state.dragState = null THEN state
  ELSE IF state.dragState.sourceType = "inventory"
    THEN [state EXCEPT !.inventory = Append(state.inventory, state.dragState.piece),
                       !.dragState = null]
  ELSE [state EXCEPT
          !.board.occupiedSegments =
             updateOccupiedSegments(state.board.occupiedSegments,
                                    state.dragState.sourcePiece,
                                    state.dragState.sourcePosition, "add"),
          !.dragState = null]

\* mutant: without a drag, Cancel empties the occupancy index
CANCEL_DRAG_clearsOccupancyWhenIdle(state) ==
  IF state.dragState = null THEN [state EXCEPT !.board.occupiedSegments = {}]
  ELSE IF state.dragState.sourceType = "inventory"
    THEN [state EXCEPT !.dragState = null]
  ELSE IF state.dragState.sourcePosition # undefined
    THEN [state EXCEPT
            !.board.occupiedSegments =
               updateOccupiedSegments(state.board.occupiedSegments,
                                      IF state.dragState.sourcePiece # undefined
                                        THEN state.dragState.sourcePiece
                                        ELSE state.dragState.piece,
                                      state.dragState.sourcePosition, "add"),
            !.dragState = null]
  ELSE [state EXCEPT !.dragState = null]

\* const restorePiece = sourcePiece ?? piece   (CANCEL_DRAG)
cancelRestorePiece(ds) ==
  IF ds.sourcePiece # undefined THEN ds.sourcePiece ELSE ds.piece

\* mutant: cancelling an inventory drag leaves the drag in place
CANCEL_DRAG_keepsInventoryDrag(state) ==
  IF state.dragState = null THEN state
  ELSE IF state.dragState.sourceType = "inventory"
    THEN state
  ELSE IF state.dragState.sourcePosition # undefined
    THEN [state EXCEPT
            !.board.occupiedSegments =
               updateOccupiedSegments(state.board.occupiedSegments,
                                      cancelRestorePiece(state.dragState),
                                      state.dragState.sourcePosition, "add"),
            !.dragState = null]
  ELSE [state EXCEPT !.dragState = null]

CANCEL_DRAG(state) ==
  IF state.dragState = null THEN state
  ELSE IF state.dragState.sourceType = "inventory"
    THEN [state EXCEPT !.dragState = null]
  ELSE IF state.dragState.sourcePosition # undefined
    THEN [state EXCEPT
            !.board.occupiedSegments =
               updateOccupiedSegments(state.board.occupiedSegments,
                                      cancelRestorePiece(state.dragState),
                                      state.dragState.sourcePosition, "add"),
            !.dragState = null]
  ELSE [state EXCEPT !.dragState = null]

\* Array.prototype.findIndex on the piece id: first match, or -1
findIndex(pieces, pieceId_) ==
  IF \E i \in 1..Len(pieces) : pieces[i].id = pieceId_
    THEN SetMin({i \in 1..Len(pieces) : pieces[i].id = pieceId_})
    ELSE 0 - 1

\* mutant: a piece placed on the board is rotated as well
ROTATE_PIECE_alsoPlaced(state, pieceId_, direction) ==
  LET inventoryIndex == findIndex(state.inventory, pieceId_)
      newInventory ==
        IF inventoryIndex # 0 - 1
          THEN [state.inventory EXCEPT
                  ![inventoryIndex] = rotatePiece(state.inventory[inventoryIndex], direction)]
          ELSE state.inventory
      dragged == state.dragState # null /\ state.dragState.piece.id = pieceId_
      newDragState ==
        IF dragged
          THEN [state.dragState EXCEPT !.piece = rotatePiece(state.dragState.piece, direction)]
          ELSE state.dragState
      newPlacedPieces ==
        [i \in 1..Len(state.board.placedPieces) |->
           IF state.board.placedPieces[i].piece.id = pieceId_
             THEN [state.board.placedPieces[i] EXCEPT
                     !.piece = rotatePiece(state.board.placedPieces[i].piece, direction)]
             ELSE state.board.placedPieces[i]]
  IN  [state EXCEPT !.inventory = newInventory, !.dragState = newDragState,
                    !.board.placedPieces = newPlacedPieces]

\* mutant: while the piece is dragged only the dragged copy is turned
ROTATE_PIECE_skipsInventoryWhenDragged(state, pieceId_, direction) ==
  LET inventoryIndex == findIndex(state.inventory, pieceId_)
      newInventory ==
        IF inventoryIndex # 0 - 1
             /\ ~(state.dragState # null /\ state.dragState.piece.id = pieceId_)
          THEN [state.inventory EXCEPT
                  ![inventoryIndex] = rotatePiece(state.inventory[inventoryIndex], direction)]
          ELSE state.inventory
      dragged == state.dragState # null /\ state.dragState.piece.id = pieceId_
      newDragState ==
        IF dragged
          THEN [state.dragState EXCEPT !.piece = rotatePiece(state.dragState.piece, direction)]
          ELSE state.dragState
  IN  IF inventoryIndex = 0 - 1 /\ ~dragged THEN state
      ELSE [state EXCEPT !.inventory = newInventory, !.dragState = newDragState]

\* mutant: the snapshot of the drag is replaced by the turned piece
ROTATE_PIECE_turnsSnapshot(state, pieceId_, direction) ==
  LET inventoryIndex == findIndex(state.inventory, pieceId_)
      newInventory ==
        IF inventoryIndex # 0 - 1
          THEN [state.inventory EXCEPT
                  ![inventoryIndex] = rotatePiece(state.inventory[inventoryIndex], direction)]
          ELSE state.inventory
      dragged == state.dragState # null /\ state.dragState.piece.id = pieceId_
      newDragState ==
        IF dragged
          THEN [state.dragState EXCEPT
                  !.piece = rotatePiece(state.dragState.piece, direction),
                  !.sourcePiece = rotatePiece(state.dragState.piece, direction)]
          ELSE state.dragState
  IN  IF inventoryIndex = 0 - 1 /\ ~dragged THEN state
      ELSE [state EXCEPT !.inventory = newInventory, !.dragState = newDragState]

ROTATE_PIECE(state, pieceId_, direction) ==
  LET inventoryIndex == findIndex(state.inventory, pieceId_)
      newInventory ==
        IF inventoryIndex # 0 - 1
          THEN [state.inventory EXCEPT
                  ![inventoryIndex] = rotatePiece(state.inventory[inventoryIndex], direction)]
          ELSE state.inventory
      dragged == state.dragState # null /\ state.dragState.piece.id = pieceId_
      newDragState ==
        IF dragged
          THEN [state.dragState EXCEPT !.piece = rotatePiece(state.dragState.piece, direction)]
          ELSE state.dragState
  IN  IF inventoryIndex = 0 - 1 /\ ~dragged THEN state
      ELSE [state EXCEPT !.inventory = newInventory, !.dragState = newDragState]

\* mutant: the piece of an inventory drag is appended to inventory
RETURN_TO_INVENTORY_appendsDragged(state, piece) ==
  IF state.dragState # null /\ state.dragState.sourceType = "inventory"
    THEN [state EXCEPT !.inventory = Append(state.inventory, piece),
                       !.dragState = null]
  ELSE
    LET placed == state.board.placedPieces
        newPlacedPieces == SelectSeq(placed, LAMBDA p : p.piece.id # piece.id)
        found == {i \in 1..Len(placed) : placed[i].piece.id = piece.id}
        newOccupiedSegments ==
          IF found # {}
            THEN updateOccupiedSegments(state.board.occupiedSegments,
                                        placed[SetMin(found)].piece,
                                        placed[SetMin(found)].position, "remove")
            ELSE state.board.occupiedSegments
        isAlreadyInInventory ==
          \E i \in 1..Len(state.inventory) : state.inventory[i].id = piece.id
    IN  [state EXCEPT
           !.board.placedPieces = newPlacedPieces,
           !.board.occupiedSegments = newOccupiedSegments,
           !.inventory = IF isAlreadyInInventory THEN state.inventory
                         ELSE Append(state.inventory, piece),
           !.dragState = null]

\* mutant: the piece is appended even when inventory already lists its id
RETURN_TO_INVENTORY_alwaysAppends(state, piece) ==
  IF state.dragState # null /\ state.dragState.sourceType = "inventory"
    THEN [state EXCEPT !.dragState = null]
  ELSE
    LET placed == state.board.placedPieces
        newPlacedPieces == SelectSeq(placed, LAMBDA p : p.piece.id # piece.id)
        found == {i \in 1..Len(placed) : placed[i].piece.id = piece.id}
        newOccupiedSegments ==
          IF found # {}
            THEN updateOccupiedSegments(state.board.occupiedSegments,
                                        placed[SetMin(found)].piece,
                                        placed[SetMin(found)].position, "remove")
            ELSE state.board.occupiedSegments
    IN  [state EXCEPT
           !.board.placedPieces = newPlacedPieces,
           !.board.occupiedSegments = newOccupiedSegments,
           !.inventory = Append(state.inventory, piece),
           !.dragState = null]

RETURN_TO_INVENTORY(state, piece) ==
  IF state.dragState # null /\ state.dragState.sourceType = "inventory"
    THEN [state EXCEPT !.dragState = null]
  ELSE
    LET placed == state.board.placedPieces
        newPlacedPieces == SelectSeq(placed, LAMBDA p : p.piece.id # piece.id)
        found == {i \in 1..Len(placed) : placed[i].piece.id = piece.id}
        newOccupiedSegments ==
          IF found # {}
            THEN updateOccupiedSegments(state.board.occupiedSegments,
                                        placed[SetMin(found)].piece,
                                        placed[SetMin(found)].position, "remove")
            ELSE state.board.occupiedSegments
        isAlreadyInInventory ==
          \E i \in 1..Len(state.inventory) : state.inventory[i].id = piece.id
    IN  [state EXCEPT
           !.board.placedPieces = newPlacedPieces,
           !.board.occupiedSegments = newOccupiedSegments,
           !.inventory = IF isAlreadyInInventory THEN state.inventory
                         ELSE Append(state.inventory, piece),
           !.dragState = null]

\* mutant: the board is cleared, the inventory kept
RESET_BOARD_keepsInventory(state) ==
  [getInitialState EXCEPT !.inventory = state.inventory]

RESET_BOARD(state) == getInitialState

(***************************************************************************)
(* lib/anchor.ts and the coordinate conversions of Board.  The numbers of  *)
(* these functions are fractions (half-unit midpoints, tenths in the       *)
(* offsets); they are kept exactly, as numerator over positive             *)
(* denominator.                                                            *)
(***************************************************************************)
Rat(n, d) == [num |-> n, den |-> d]

Whole(n) == Rat(n, 1)

RatPlus(a, b) == Rat(a.num * b.den + b.num * a.den, a.den * b.den)

RatMinus(a, b) == Rat(a.num * b.den - b.num * a.den, a.den * b.den)

RatTimes(a, b) == Rat(a.num * b.num, a.den * b.den)

\* a / b for b > 0
RatOver(a, b) == Rat(a.num * b.den, a.den * b.num)

RatLeq(a, b) == a.num * b.den <= b.num * a.den

RatMin(S) == CHOOSE a \in S : \A b \in S : RatLeq(a, b)

RatMax(S) == CHOOSE a \in S : \A b \in S : RatLeq(b, a)

\* Math.round: the nearest integer, halves towards +Infinity
MathRound(a) == (2 * a.num + a.den) \div (2 * a.den)

PIECE_ANCHOR_OFFSETS ==
  [n \in PieceNumber |->
     CASE n = 0 -> [x |-> Rat(2, 1),   y |-> Rat(2, 1)]
       [] n = 1 -> [x |-> Rat(1, 1),   y |-> Rat(1, 1)]
       [] n = 2 -> [x |-> Rat(15, 10), y |-> Rat(1, 1)]
       [] n = 3 -> [x |-> Rat(1, 1),   y |-> Rat(15, 10)]
       [] n = 4 -> [x |-> Rat(13, 10), y |-> Rat(12, 10)]
       [] n = 5 -> [x |-> Rat(11, 10), y |-> Rat(15, 10)]
       [] n = 6 -> [x |-> Rat(15, 10), y |-> Rat(15, 10)]
       [] n = 7 -> [x |-> Rat(12, 10), y |-> Rat(15, 10)]
       [] n = 8 -> [x |-> Rat(2, 1),   y |-> Rat(14, 10)]
       [] n = 9 -> [x |-> Rat(15, 10), y |-> Rat(15, 10)]]

getPieceAnchor(piece) ==
  LET segments == getPieceSegments(piece)
      midX(seg) == IF seg.orientation = "horizontal"
                     THEN Rat(2 * seg.x + 1, 2) ELSE Whole(seg.x)
      midY(seg) == IF seg.orientation = "horizontal"
                     THEN Whole(seg.y) ELSE Rat(2 * seg.y + 1, 2)
      xs == {midX(segments[i]) : i \in 1..Len(segments)}
      ys == {midY(segments[i]) : i \in 1..Len(segments)}
      center == [x |-> RatOver(RatPlus(RatMin(xs), RatMax(xs)), Whole(2)),
                 y |-> RatOver(RatPlus(RatMin(ys), RatMax(ys)), Whole(2))]
      offset == PIECE_ANCHOR_OFFSETS[piece.number]
  IN  IF Len(segments) = 0
        THEN [x |-> Whole(0), y |-> Whole(0)]
        ELSE [x |-> RatPlus(center.x, offset.x), y |-> RatPlus(center.y, offset.y)]

BASE_SEGMENT_LENGTH == 60

GRID_PADDING == 10

SEGMENT_LENGTH(scale) == RatTimes(Whole(BASE_SEGMENT_LENGTH), scale)

gridToPixel(x, y, scale) ==
  [x |-> RatPlus(RatTimes(Whole(GRID_PADDING), scale), RatTimes(x, SEGMENT_LENGTH(scale))),
   y |-> RatPlus(RatTimes(Whole(GRID_PADDING), scale), RatTimes(y, SEGMENT_LENGTH(scale)))]

pixelToGrid(pixelX, pixelY, piece, scale) ==
  LET gridX == MathRound(RatOver(RatMinus(pixelX, RatTimes(Whole(GRID_PADDING), scale)),
                                 SEGMENT_LENGTH(scale)))
      gridY == MathRound(RatOver(RatMinus(pixelY, RatTimes(Whole(GRID_PADDING), scale)),
                                 SEGMENT_LENGTH(scale)))
      center == IF piece # null THEN getPieceAnchor(piece)
                ELSE [x |-> Whole(0), y |-> Whole(0)]
  IN  [x |-> MathRound(RatMinus(Whole(gridX), center.x)),
       y |-> MathRound(RatMinus(Whole(gridY), center.y))]

\* mutant: the preview tests the bounds only
wouldBeValidPlacement_boundsOnly(piece, position, occupiedSegments) ==
  LET segments == getPieceSegments(piece)
  IN  \A i \in 1..Len(segments) :
        LET absoluteSeg == Segment(position.x + segments[i].x, position.y + segments[i].y,
                                   segments[i].orientation)
        IN  IF absoluteSeg.orientation = "horizontal"
              THEN ~(absoluteSeg.x < 0 \/ absoluteSeg.x >= 5
                       \/ absoluteSeg.y < 0 \/ absoluteSeg.y > 4)
              ELSE ~(absoluteSeg.x < 0 \/ absoluteSeg.x > 5
                       \/ absoluteSeg.y < 0 \/ absoluteSeg.y >= 4)

\* Board.wouldBeValidPlacement; occupiedSegments is the prop of Board
wouldBeValidPlacement(piece, position, occupiedSegments) ==
  LET segments == getPieceSegments(piece)
  IN  \A i \in 1..Len(segments) :
        LET absoluteSeg == Segment(position.x + segments[i].x, position.y + segments[i].y,
                                   segments[i].orientation)
        IN  /\ IF absoluteSeg.orientation = "horizontal"
                 THEN ~(absoluteSeg.x < 0 \/ absoluteSeg.x >= 5
                          \/ absoluteSeg.y < 0 \/ absoluteSeg.y > 4)
                 ELSE ~(absoluteSeg.x < 0 \/ absoluteSeg.x > 5
                          \/ absoluteSeg.y < 0 \/ absoluteSeg.y >= 4)
            /\ segmentToId(absoluteSeg) \notin occupiedSegments

(***************************************************************************)
(* The state machine: useReducer(gameReducer, getInitialState()) driven by *)
(* the dispatches of GameContainer, Board and Inventory.                   *)
(*   board, inventory, dragState : the GameState                           *)
(*   pre   : the GameState in which the latest PICK_UP_PIECE was           *)
(*           dispatched                                                    *)
(*           (right after a RESET_BOARD, or a DROP_PIECE or CANCEL_DRAG    *)
(*           dispatched without a drag: a note of that)                    *)
(*   hist  : what was dispatched since, and including, that pickup, up to  *)
(*           the action that ended the drag; pre and hist are forgotten    *)
(*           (null, empty) by the first action after the drag has ended    *)
(*   steps : number of actions dispatched so far, at most limit            *)
(*   probe : null here; the call under examination when the library        *)
(*           functions are called directly (further below)                 *)
(***************************************************************************)
State == [board |-> board, inventory |-> inventory, dragState |-> dragState]

ActiveIds == {pieceId(n) : n \in ActiveNumbers}

\* the Piece objects the components can hold on to
PiecesInPlay ==
  {inventory[i] : i \in 1..Len(inventory)}
    \cup {board.placedPieces[i].piece : i \in 1..Len(board.placedPieces)}
    \cup (IF dragState = null THEN {} ELSE {dragState.piece})

BoardSegmentIds == {segmentToId(getAllBoardSegments[i]) : i \in 1..Len(getAllBoardSegments)}

\* the absolute segment ids of a piece at a position
Footprint(piece, position) ==
  LET segments == getPieceSegmentPositions(piece, position)
  IN  {segmentToId(segments[i]) : i \in 1..Len(segments)}

\* every absolute segment is a board segment and none is occupied
Fits(piece, position, occupiedSegments) ==
  /\ Footprint(piece, position) \subseteq BoardSegmentIds
  /\ Footprint(piece, position) \cap occupiedSegments = {}

Entry(op, arg) == [op |-> op, arg |-> arg]

Log(op, arg) == IF dragState = null THEN << >> ELSE Append(hist, Entry(op, arg))

Keep == IF dragState = null THEN null ELSE pre

\* what pre holds right after a DROP_PIECE or CANCEL_DRAG dispatched without a drag
IdleOp(op) == [tag |-> "idle", op |-> op]

KeepOrNote(op) == IF dragState = null THEN IdleOp(op) ELSE pre

\* what pre holds right after a RESET_BOARD: whether a drag was active, a
\* piece was placed, an inventory piece was rotated when it was dispatched
ResetFrom(dragging, placed, rotated) ==
  [tag |-> "reset", dragging |-> dragging, placed |-> placed, rotated |-> rotated]

Dispatch(newState, newPre, newHist) ==
  /\ steps < limit
  /\ board' = newState.board
  /\ inventory' = newState.inventory
  /\ dragState' = newState.dragState
  /\ pre' = newPre
  /\ hist' = newHist
  /\ steps' = steps + 1
  /\ limit' = limit
  /\ probe' = probe

InitGame ==
  /\ board = getInitialState.board
  /\ inventory = getInitialState.inventory
  /\ dragState = getInitialState.dragState
  /\ pre = null
  /\ hist = << >>
  /\ steps = 0
  /\ probe = null

Init == InitGame /\ limit = MaxSteps

InitDeep == InitGame /\ limit = MaxStepsDeep

\* Inventory item onPointerDown -> handlePiecePickupFromInventory
PickUpFromInventory ==
  \E i \in 1..Len(inventory) :
    /\ inventory[i].number \in ActiveNumbers
    /\ Dispatch(PICK_UP_PIECE(State, inventory[i], "inventory", undefined),
                State,
                << Entry("PickUp", [source |-> "inventory", nested |-> dragState # null]) >>)

\* Board hitbox onPointerDown -> handlePiecePickupFromBoard
PickUpFromBoard ==
  \E i \in 1..Len(board.placedPieces) :
    Dispatch(PICK_UP_PIECE(State, board.placedPieces[i].piece, "board",
                           board.placedPieces[i].position),
             State,
             << Entry("PickUp", [source |-> "board", nested |-> dragState # null]) >>)

\* handlePieceDrop
Drop ==
  \E position \in Positions :
    Dispatch(DROP_PIECE(State, position),
             KeepOrNote("Drop"),
             Log("Drop",
                 LET fits == Fits(dragState.piece, position, board.occupiedSegments)
                 IN  [fits |-> fits,
                      inRange |-> Footprint(dragState.piece, position) \subseteq BoardSegmentIds,
                      atSource |-> dragState.sourcePosition = position,
                      position |-> IF fits THEN position ELSE undefined]))

\* handleDragCancel
Cancel == Dispatch(CANCEL_DRAG(State), KeepOrNote("Cancel"), Log("Cancel", undefined))

\* handleRotate (inventory buttons, Q / E while dragging)
Rotate ==
  \E pieceId_ \in ActiveIds, direction \in Directions :
    Dispatch(ROTATE_PIECE(State, pieceId_, direction),
             Keep,
             Log("Rotate",
                 [direction |-> direction,
                  dragged |-> dragState # null /\ dragState.piece.id = pieceId_,
                  listed |-> \E i \in 1..Len(inventory) : inventory[i].id = pieceId_]))

\* handlePieceReturnToInventory
ReturnToInventory ==
  \E piece \in PiecesInPlay :
    /\ piece.number \in ActiveNumbers
    /\ Dispatch(RETURN_TO_INVENTORY(State, piece),
                Keep,
                Log("Return",
                    [dragged |-> dragState # null /\ dragState.piece = piece]))

\* handleReset; pre notes what the reset found
Reset ==
  Dispatch(RESET_BOARD(State),
           ResetFrom(dragState # null,
                     Len(board.placedPieces) > 0,
                     \E i \in 1..Len(inventory) : inventory[i].rotation # 0),
           << >>)

Next ==
  \/ PickUpFromInventory
  \/ PickUpFromBoard
  \/ Drop
  \/ Cancel
  \/ Rotate
  \/ ReturnToInventory
  \/ Reset

Spec == Init /\ [][Next]_vars

SpecDeep == InitDeep /\ [][Next]_vars

(***************************************************************************)
(* The library functions called directly: rotatePiece (lib/rotation),      *)
(* checkCollision (lib/gameState), segmentToId and getAllBoardSegments     *)
(* (lib/segments).  probe holds the arguments of one call and, once the    *)
(* call is made, its result; the game state stays the initial one.         *)
(***************************************************************************)
RECURSIVE turned(_, _, _)
\* rotatePiece applied n times
turned(piece, direction, n) ==
  IF n = 0 THEN piece ELSE turned(rotatePiece(piece, direction), direction, n - 1)

\* the ten pieces of getInitialState, each in the four rotations rotatePiece gives
Pieces ==
  {turned(getInitialState.inventory[k], "clockwise", n) : k \in 1..10, n \in 0..3}

ProbePositions == [x : (0 - 1)..MaxProbeX, y : (0 - 1)..MaxProbeY]

\* indices into getAllBoardSegments: "1,0,v", "0,0,h", "1,1,v", "0,1,h", ...
OccupiedOrder == <<30, 1, 31, 6, 26, 2, 11, 34, 49, 25>>

Occupancies ==
  SUBSET {segmentToId(getAllBoardSegments[OccupiedOrder[i]]) : i \in 1..NumOccupied}

ProbeSegments ==
  {Segment(x, y, o) : x \in (0 - 2)..MaxCoord, y \in (0 - 2)..MaxCoord,
                      o \in {"horizontal", "vertical"}}

PieceProbes ==
  {[kind |-> "piece", start |-> p, piece |-> p, turns |-> << >>] : p \in Pieces}

CollisionProbes ==
  {[kind |-> "collision", piece |-> p, position |-> position, occupied |-> occupied,
    done |-> FALSE, result |-> FALSE] :
     p \in Pieces, position \in ProbePositions, occupied \in Occupancies}

SegmentProbes ==
  {[kind |-> "segment", segment |-> segment, done |-> FALSE, id |-> "", onBoard |-> FALSE] :
     segment \in ProbeSegments}

\* the scale of Board: 0.8 at first, then computed from its container, at most 2.0
BoardScales == {Rat(4, 5), Rat(1, 1), Rat(3, 2), Rat(2, 1)}

\* a placed piece under the pointer: centroid is the pixel its grab records,
\* hover the grid position the board computes from it
GrabProbes ==
  {[kind |-> "grab", piece |-> p, position |-> position, scale |-> scale,
    stage |-> "placed", centroid |-> [x |-> Whole(0), y |-> Whole(0)],
    hover |-> [x |-> 0, y |-> 0]] :
     p \in Pieces, position \in ProbePositions, scale \in BoardScales}

\* a set of occupied ids and the piece and position it is updated with:
\* operations are the calls made so far, results what each returned
OccupancyProbes ==
  {[kind |-> "occupancy", piece |-> p, position |-> position, occupied |-> occupied,
    operations |-> << >>, results |-> << >>] :
     p \in Pieces, position \in ProbePositions, occupied \in Occupancies}

\* a dragged piece hovering over a position of a board with an occupied set:
\* valid is the preview of Board, collision the test the reducer's drop makes
PreviewProbes ==
  {[kind |-> "preview", piece |-> p, position |-> position, occupied |-> occupied,
    previewed |-> FALSE, valid |-> FALSE, dropped |-> FALSE, collision |-> FALSE] :
     p \in Pieces, position \in ProbePositions, occupied \in Occupancies}

InitLibrary ==
  /\ board = getInitialState.board
  /\ inventory = getInitialState.inventory
  /\ dragState = getInitialState.dragState
  /\ pre = null
  /\ hist = << >>
  /\ steps = 0
  /\ limit = 0
  /\ probe \in PieceProbes \cup CollisionProbes \cup SegmentProbes \cup GrabProbes
                \cup OccupancyProbes \cup PreviewProbes

\* piece = rotatePiece(piece, direction)
CallRotatePiece ==
  \E direction \in Directions :
    /\ probe.kind = "piece"
    /\ Len(probe.turns) < MaxTurns
    /\ probe' = [probe EXCEPT !.piece = rotatePiece(probe.piece, direction),
                              !.turns = Append(probe.turns, direction)]
    /\ UNCHANGED <<board, inventory, dragState, pre, hist, steps, limit>>

\* result = checkCollision(piece, position, occupied)
CallCheckCollision ==
  /\ probe.kind = "collision"
  /\ ~probe.done
  /\ probe' = [probe EXCEPT !.done = TRUE,
                            !.result = checkCollision(probe.piece, probe.position,
                                                      probe.occupied)]
  /\ UNCHANGED <<board, inventory, dragState, pre, hist, steps, limit>>

\* id = segmentToId(segment); onBoard = getAllBoardSegments().some(equal to segment)
CallSegmentToId ==
  /\ probe.kind = "segment"
  /\ ~probe.done
  /\ probe' = [probe EXCEPT !.done = TRUE,
                            !.id = segmentToId(probe.segment),
                            !.onBoard = \E i \in 1..Len(getAllBoardSegments) :
                                          getAllBoardSegments[i] = probe.segment]
  /\ UNCHANGED <<board, inventory, dragState, pre, hist, steps, limit>>

\* updateOccupiedSegments(latest set, piece, position, operation): the first
\* call is given probe.occupied, the second the set the first returned
CallUpdateOccupiedSegments ==
  \E operation \in {"add", "remove"} :
    /\ probe.kind = "occupancy"
    /\ Len(probe.operations) < 2
    /\ LET input == IF probe.results = << >> THEN probe.occupied
                    ELSE probe.results[Len(probe.results)]
       IN  probe' = [probe EXCEPT
                       !.operations = Append(@, operation),
                       !.results = Append(@, updateOccupiedSegments(input, probe.piece,
                                                                    probe.position,
                                                                    operation))]
    /\ UNCHANGED <<board, inventory, dragState, pre, hist, steps, limit>>

\* Board renders the preview of the dragged piece at the hover position
CallWouldBeValidPlacement ==
  /\ probe.kind = "preview"
  /\ ~probe.previewed
  /\ probe' = [probe EXCEPT !.previewed = TRUE,
                            !.valid = wouldBeValidPlacement(probe.piece, probe.position,
                                                            probe.occupied)]
  /\ UNCHANGED <<board, inventory, dragState, pre, hist, steps, limit>>

\* DROP_PIECE tests the previewed position against the same occupied set
CallCheckCollisionOfDrop ==
  /\ probe.kind = "preview"
  /\ probe.previewed
  /\ ~probe.dropped
  /\ probe' = [probe EXCEPT !.dropped = TRUE,
                            !.collision = checkCollision(probe.piece, probe.position,
                                                         probe.occupied)]
  /\ UNCHANGED <<board, inventory, dragState, pre, hist, steps, limit>>

\* Board onPointerDown of a placed piece: the pixel of its anchor, which the
\* pointer offset makes the drag pointer
GrabPlacedPiece ==
  /\ probe.kind = "grab"
  /\ probe.stage = "placed"
  /\ LET center == getPieceAnchor(probe.piece)
         absX == RatPlus(Whole(probe.position.x), center.x)
         absY == RatPlus(Whole(probe.position.y), center.y)
     IN  probe' = [probe EXCEPT !.stage = "grabbed",
                                !.centroid = gridToPixel(absX, absY, probe.scale)]
  /\ UNCHANGED <<board, inventory, dragState, pre, hist, steps, limit>>

\* Board drag-over effect with the pointer where the grab left it
HoverWithoutMoving ==
  /\ probe.kind = "grab"
  /\ probe.stage = "grabbed"
  /\ probe' = [probe EXCEPT !.stage = "hovered",
                            !.hover = pixelToGrid(probe.centroid.x, probe.centroid.y,
                                                  probe.piece, probe.scale)]
  /\ UNCHANGED <<board, inventory, dragState, pre, hist, steps, limit>>

NextLibrary ==
  \/ CallRotatePiece
  \/ CallCheckCollision
  \/ CallSegmentToId
  \/ CallUpdateOccupiedSegments
  \/ CallWouldBeValidPlacement
  \/ CallCheckCollisionOfDrop
  \/ GrabPlacedPiece
  \/ HoverWithoutMoving

SpecLibrary == InitLibrary /\ [][NextLibrary]_vars

(***************************************************************************)
(* GameContainer's pointer drag: the handlers of pointer-down on a piece,  *)
(* of the hover effects of Board and Inventory, of the rotate keys and     *)
(* buttons, of Reset and of the window's pointer-up.  probe holds the      *)
(* component state (isPointerDragging, boardHoverPosition,                 *)
(* isInventoryHover) and names what the latest pointer-up dispatched.      *)
(***************************************************************************)
\* indices into DropOrder: (0,0), (-1,-1), (1,0), (4,3), (1,1)
HoverOrder == <<6, 1, 7, 13, 11>>

HoverPositions ==
  {[x |-> DropOrder[HoverOrder[i]][1], y |-> DropOrder[HoverOrder[i]][2]] : i \in 1..NumHover}

Pointer(dragging, hover, overInventory, released) ==
  [kind |-> "pointer", isPointerDragging |-> dragging, boardHoverPosition |-> hover,
   isInventoryHover |-> overInventory, released |-> released]

InitPointer ==
  /\ board = getInitialState.board
  /\ inventory = getInitialState.inventory
  /\ dragState = getInitialState.dragState
  /\ pre = null
  /\ hist = << >>
  /\ steps = 0
  /\ limit = MaxPointerSteps
  /\ probe = Pointer(FALSE, null, FALSE, "none")

\* one handler run: the reducer state after its dispatches, the component state
\* after its setters
Handle(newState, newPointer) ==
  /\ steps < limit
  /\ board' = newState.board
  /\ inventory' = newState.inventory
  /\ dragState' = newState.dragState
  /\ probe' = newPointer
  /\ steps' = steps + 1
  /\ UNCHANGED <<pre, hist, limit>>

\* Inventory onPointerDown: onPiecePickup, then startPointerDragFromInventory
InventoryPointerDown ==
  \E i \in 1..Len(inventory) :
    /\ inventory[i].number \in ActiveNumbers
    /\ Handle(PICK_UP_PIECE(State, inventory[i], "inventory", undefined),
              [probe EXCEPT !.isPointerDragging = TRUE])

\* Board onPointerDown: onPiecePickup, then startPointerDragFromBoard, which
\* dispatches the pickup again
BoardPointerDown ==
  \E i \in 1..Len(board.placedPieces) :
    LET entry == board.placedPieces[i]
        first == PICK_UP_PIECE(State, entry.piece, "board", entry.position)
    IN  Handle(PICK_UP_PIECE(first, entry.piece, "board", entry.position),
               [probe EXCEPT !.isPointerDragging = TRUE])

\* the drag-over effects of Board and Inventory after a pointer move
HoverChange ==
  \E hover \in HoverPositions \cup {null}, overInventory \in BOOLEAN :
    /\ probe.isPointerDragging
    /\ dragState # null
    /\ probe.boardHoverPosition # hover \/ probe.isInventoryHover # overInventory
    /\ probe' = [probe EXCEPT !.boardHoverPosition = hover,
                              !.isInventoryHover = overInventory]
    /\ UNCHANGED <<board, inventory, dragState, pre, hist, steps, limit>>

\* rotateCurrentlyDraggedPiece (Q / E) and the rotate buttons of Inventory
RotateInput ==
  \E direction \in Directions :
    \/ /\ dragState # null
       /\ Handle(ROTATE_PIECE(State, dragState.piece.id, direction), probe)
    \/ \E i \in 1..Len(inventory) :
         /\ inventory[i].number \in ActiveNumbers
         /\ Handle(ROTATE_PIECE(State, inventory[i].id, direction), probe)

\* handleReset, confirmed
ResetClick == Handle(RESET_BOARD(State), probe)

\* what handlePointerUp dispatches for a drag
releaseAction(hover, overInventory) ==
  IF hover # null THEN "Drop"
  ELSE IF overInventory THEN "Return"
  ELSE "Cancel"

\* the window's pointerup listener, registered while isPointerDragging; the
\* hover effects then see no drag pointer and clear both hovers
PointerUp ==
  /\ probe.isPointerDragging
  /\ LET released == IF dragState = null THEN "nothing"
                     ELSE releaseAction(probe.boardHoverPosition, probe.isInventoryHover)
         newState == CASE released = "nothing" -> State
                       [] released = "Drop" -> DROP_PIECE(State, probe.boardHoverPosition)
                       [] released = "Return" -> RETURN_TO_INVENTORY(State, dragState.piece)
                       [] released = "Cancel" -> CANCEL_DRAG(State)
     IN  Handle(newState, Pointer(FALSE, null, FALSE, released))

NextPointer ==
  \/ InventoryPointerDown
  \/ BoardPointerDown
  \/ HoverChange
  \/ RotateInput
  \/ ResetClick
  \/ PointerUp

SpecPointer == InitPointer /\ [][NextPointer]_vars

(***************************************************************************)
(* components/ChallengeViewer.tsx: the page state.  A stored value is the  *)
(* item of localStorage, absent or a string given as its characters;       *)
(* numbers are exact fractions, with denominator 0 standing for NaN.       *)
(***************************************************************************)
Digits == <<"0", "1", "2", "3", "4", "5", "6", "7", "8", "9">>

IsDigit(c) == \E d \in 1..10 : Digits[d] = c

DigitValue(c) == (CHOOSE d \in 1..10 : Digits[d] = c) - 1

NaN == Rat(0, 0)

RECURSIVE PowerOfTen(_)
PowerOfTen(k) == IF k = 0 THEN 1 ELSE 10 * PowerOfTen(k - 1)

\* the value of a sequence of digits
RECURSIVE ValueOf(_)
ValueOf(chars) ==
  IF chars = << >> THEN 0
  ELSE 10 * ValueOf(SubSeq(chars, 1, Len(chars) - 1)) + DigitValue(chars[Len(chars)])

\* Number(saved): null and "" give 0, a decimal literal its value, other text NaN
Number(saved) ==
  IF ~saved.present \/ saved.chars = << >> THEN Whole(0)
  ELSE
    LET negative == saved.chars[1] = "-"
        body == IF negative THEN Tail(saved.chars) ELSE saved.chars
        dots == {i \in 1..Len(body) : body[i] = "."}
        dot == IF dots = {} THEN Len(body) + 1 ELSE CHOOSE i \in dots : TRUE
        whole == SubSeq(body, 1, dot - 1)
        fraction == SubSeq(body, dot + 1, Len(body))
        wellFormed ==
          /\ Cardinality(dots) <= 1
          /\ Len(whole) + Len(fraction) >= 1
          /\ \A i \in 1..Len(body) : IsDigit(body[i]) \/ body[i] = "."
    IN  IF ~wellFormed THEN NaN
        ELSE Rat((IF negative THEN 0 - 1 ELSE 1) * ValueOf(whole \o fraction),
                 PowerOfTen(Len(fraction)))

\* the decimal digits of a natural number
RECURSIVE DigitsOf(_)
DigitsOf(n) ==
  IF n < 10 THEN <<Digits[n + 1]>>
  ELSE Append(DigitsOf(n \div 10), Digits[(n % 10) + 1])

\* the digits of the fraction n / d, d a power of ten, without trailing zeros
RECURSIVE FractionDigits(_, _)
FractionDigits(n, d) ==
  IF n = 0 \/ d = 1 THEN << >>
  ELSE <<Digits[((10 * n) \div d) + 1]>> \o FractionDigits((10 * n) % d, d)

\* String(page) for a number that is not NaN
String(page) ==
  LET magnitude == IF page.num < 0 THEN 0 - page.num ELSE page.num
      fraction == FractionDigits(magnitude % page.den, page.den)
  IN  (IF page.num < 0 THEN <<"-">> ELSE << >>)
        \o DigitsOf(magnitude \div page.den)
        \o (IF fraction = << >> THEN << >> ELSE <<".">> \o fraction)

Stored(chars) == [present |-> TRUE, chars |-> chars]

\* the initializer of useState for currentPage
initialPage(saved) ==
  LET page == Number(saved)
  IN  IF page.den # 0 /\ RatLeq(Whole(1), page) THEN page ELSE Whole(1)

\* what localStorage can hold when the viewer mounts
SavedValues ==
  {[present |-> FALSE, chars |-> << >>]}
    \cup {Stored(chars) : chars \in
            {<< >>, <<"a", "b">>, <<"0">>, <<"-", "3">>, <<"1">>, <<"2">>, <<"3">>,
             <<"2", ".", "5">>, <<"1", ".", "5">>, <<"0", ".", "5">>, <<"9">>,
             <<"1", "2">>, <<"1", ".", "2", ".">>, <<"2", ".", "0">>}}

\* numPages = 0 stands for null: the component only tests it for truth
Viewer(restored, currentPage, numPages, clicks) ==
  [kind |-> "viewer", restored |-> restored, saved |-> Stored(String(currentPage)),
   currentPage |-> currentPage, numPages |-> numPages, clicks |-> clicks]

\* the viewer has mounted and its effect has persisted the page
InitViewer ==
  /\ board = getInitialState.board
  /\ inventory = getInitialState.inventory
  /\ dragState = getInitialState.dragState
  /\ pre = null
  /\ hist = << >>
  /\ steps = 0
  /\ limit = 0
  /\ \E restored \in SavedValues : probe = Viewer(restored, initialPage(restored), 0, 0)

\* a handler ran: the state it set, persisted by the effect on currentPage
ViewerStep(currentPage, numPages) ==
  /\ probe.clicks < MaxClicks
  /\ probe' = Viewer(probe.restored, currentPage, numPages, probe.clicks + 1)
  /\ UNCHANGED <<board, inventory, dragState, pre, hist, steps, limit>>

onDocumentLoadSuccess ==
  \E numPages \in 1..MaxPages :
    /\ probe.numPages = 0
    /\ ViewerStep(IF RatLeq(probe.currentPage, Whole(numPages))
                    THEN probe.currentPage ELSE Whole(numPages),
                  numPages)

\* the button is disabled when currentPage === 1
handlePreviousPage ==
  /\ ~(probe.currentPage.num = probe.currentPage.den)
  /\ ViewerStep(IF ~RatLeq(probe.currentPage, Whole(1))
                  THEN RatMinus(probe.currentPage, Whole(1)) ELSE probe.currentPage,
                probe.numPages)

\* the button is disabled when !numPages || currentPage === numPages
handleNextPage ==
  /\ probe.numPages # 0
  /\ ~(probe.currentPage.num = probe.numPages * probe.currentPage.den)
  /\ ViewerStep(IF ~RatLeq(Whole(probe.numPages), probe.currentPage)
                  THEN RatPlus(probe.currentPage, Whole(1)) ELSE probe.currentPage,
                probe.numPages)

\* the select offers numPages || 15 options
handlePageSelect ==
  \E page \in 1..(IF probe.numPages # 0 THEN probe.numPages ELSE 15) :
    /\ page <= MaxPages + 1
    /\ ViewerStep(Whole(page), probe.numPages)

\* the page is loaded again: the viewer mounts with what the effect stored
Remount ==
  /\ probe.clicks < MaxClicks
  /\ probe' = Viewer(probe.saved, initialPage(probe.saved), 0, probe.clicks + 1)
  /\ UNCHANGED <<board, inventory, dragState, pre, hist, steps, limit>>

NextViewer ==
  \/ onDocumentLoadSuccess
  \/ handlePreviousPage
  \/ handleNextPage
  \/ handlePageSelect
  \/ Remount

SpecViewer == InitViewer /\ [][NextViewer]_vars

(***************************************************************************)
(* Vocabulary of the properties                                            *)
(***************************************************************************)
AllPieceIds == {pieceId(n) : n \in PieceNumber}

\* the union of the footprints of the placed pieces of a board
PlacedFootprints(b) ==
  UNION {Footprint(b.placedPieces[i].piece, b.placedPieces[i].position) :
           i \in 1..Len(b.placedPieces)}

Consistent(b) == b.occupiedSegments = PlacedFootprints(b)

InInventory(id) == \E i \in 1..Len(inventory) : inventory[i].id = id

OnBoard(id) == \E i \in 1..Len(board.placedPieces) : board.placedPieces[i].piece.id = id

InFlight(id) == dragState # null /\ dragState.piece.id = id

Occurrences(id) ==
  Cardinality({i \in 1..Len(inventory) : inventory[i].id = id})
    + Cardinality({i \in 1..Len(board.placedPieces) : board.placedPieces[i].piece.id = id})

LastEntry == hist[Len(hist)]

\* the drag in progress, or just ended, began with a pickup from `source`
\* dispatched while no drag was active
DragFrom(source) ==
  /\ hist # << >>
  /\ hist[1] = Entry("PickUp", [source |-> source, nested |-> FALSE])

\* between the pickup and the entry `upTo`, only rotations of the dragged piece
OnlyDraggedRotations(upTo) ==
  \A k \in 2..(upTo - 1) : hist[k].op = "Rotate" /\ hist[k].arg.dragged

\* this step dispatched `op` while a drag was active
Dispatched(op) ==
  /\ dragState # null
  /\ Len(hist') = Len(hist) + 1
  /\ hist'[Len(hist')].op = op

\* the state after n ROTATE_PIECE actions on the dragged piece
RECURSIVE RotatedDrag(_, _, _)
RotatedDrag(state, direction, n) ==
  IF n = 0 THEN state
  ELSE RotatedDrag(ROTATE_PIECE(state, state.dragState.piece.id, direction),
                   direction, n - 1)

\* quarter turns applied to the dragged piece since the pickup, clockwise positive
RECURSIVE NetTurns(_)
NetTurns(k) ==
  IF k < 2 THEN 0
  ELSE NetTurns(k - 1)
         + (IF hist[k].op = "Rotate" /\ hist[k].arg.dragged
              THEN (IF hist[k].arg.direction = "clockwise" THEN 1 ELSE 0 - 1)
              ELSE 0)

\* the rotation the dragged piece had in the state it was picked up in
PickedRotation ==
  LET id == dragState.piece.id
      inv == pre.inventory
      placed == pre.board.placedPieces
  IN  IF hist[1].arg.source = "inventory"
        THEN inv[CHOOSE i \in 1..Len(inv) : inv[i].id = id].rotation
        ELSE placed[CHOOSE i \in 1..Len(placed) : placed[i].piece.id = id].piece.rotation

(***************************************************************************)
(* C1.  Whenever dragState is null, board.occupiedSegments is exactly the  *)
(* union of the absolute segment ids of the entries of board.placedPieces. *)
(* The reducer breaks this: a pickup from the board removes the piece's    *)
(* occupancy, and a second pickup or a RETURN_TO_INVENTORY of another      *)
(* piece then drops the drag without restoring it.                         *)
(***************************************************************************)
C1_OccupancyIsUnionOfPlaced == dragState = null => Consistent(board)

(***************************************************************************)
(* C2.  The footprints of any two distinct entries of board.placedPieces   *)
(* are disjoint and every segment of a placed piece is a board segment.    *)
(* The reducer breaks the first half: while a board piece is in flight its *)
(* segments are free, and a second pickup lets another piece be dropped    *)
(* onto them.                                                              *)
(***************************************************************************)
C2_PlacedDisjointAndOnBoard ==
  LET placed == board.placedPieces
  IN  /\ \A i, j \in 1..Len(placed) :
           i # j => Footprint(placed[i].piece, placed[i].position)
                      \cap Footprint(placed[j].piece, placed[j].position) = {}
      /\ \A i \in 1..Len(placed) :
           Footprint(placed[i].piece, placed[i].position) \subseteq BoardSegmentIds

(***************************************************************************)
(* C3, as claimed.  Each of the ten pieces is in exactly one of inventory, *)
(* board.placedPieces and dragState.  The reducer does not remove a piece  *)
(* from its source when it is picked up, so this fails at the first pickup.*)
(***************************************************************************)
C3_ExactlyOneOwner ==
  \A id \in AllPieceIds :
    /\ InInventory(id) \/ OnBoard(id) \/ InFlight(id)
    /\ ~(InInventory(id) /\ OnBoard(id))
    /\ ~(InInventory(id) /\ InFlight(id))
    /\ ~(OnBoard(id) /\ InFlight(id))

(***************************************************************************)
(* C3, amended.  Each of the ten piece ids occurs exactly once in          *)
(* inventory and board.placedPieces taken together, and a piece in flight  *)
(* is still listed in the collection it was picked up from: inventory for  *)
(* an inventory drag, board.placedPieces for a board drag.                 *)
(***************************************************************************)
C3_OwnedOnceDragStaysInSource ==
  /\ \A id \in AllPieceIds : Occurrences(id) = 1
  /\ dragState # null =>
       IF dragState.sourceType = "inventory"
         THEN InInventory(dragState.piece.id)
         ELSE OnBoard(dragState.piece.id)

\* a board piece is in flight, after a rotation, and still listed on the board
C3_Witness ==
  /\ dragState # null
  /\ dragState.sourceType = "board"
  /\ OnBoard(dragState.piece.id)
  /\ ~InInventory(dragState.piece.id)
  /\ Len(inventory) = 9
  /\ Len(hist) >= 2

(***************************************************************************)
(* C4.  A Drop of a piece picked up from inventory, at a position where    *)
(* all its absolute segments are board segments and unoccupied, appends    *)
(* exactly {piece, position} to placedPieces, removes the piece (and only  *)
(* it) from inventory, adds exactly its footprint to occupiedSegments and  *)
(* clears dragState; piece-1 dropped at (2,1) as the first move leaves 9   *)
(* inventory pieces and occupiedSegments = {"3,1,v", "3,2,v"}.             *)
(***************************************************************************)
C4_DropFromInventoryPlaces ==
  [][ (Dispatched("Drop") /\ dragState.sourceType = "inventory"
         /\ hist'[Len(hist')].arg.fits)
      => LET position == hist'[Len(hist')].arg.position
             piece == dragState.piece
         IN  /\ board'.placedPieces =
                  Append(board.placedPieces, [piece |-> piece, position |-> position])
             /\ inventory' = SelectSeq(inventory, LAMBDA p : p.id # piece.id)
             /\ Len(inventory') = Len(inventory) - 1
             /\ board'.occupiedSegments =
                  board.occupiedSegments \cup Footprint(piece, position)
             /\ dragState' = null
             /\ (steps = 1 /\ piece.id = "piece-1" /\ position = BoardPosition(2, 1))
                  => /\ Len(inventory') = 9
                     /\ board'.occupiedSegments = {"3,1,v", "3,2,v"} ]_vars

\* the spec's scenario: piece-1 dropped at (2,1) as the first move
C4_Witness ==
  /\ steps = 2
  /\ dragState = null
  /\ hist # << >>
  /\ LastEntry.op = "Drop"
  /\ board.placedPieces =
       << [piece |-> getInitialState.inventory[2], position |-> BoardPosition(2, 1)] >>
  /\ board.occupiedSegments = {"3,1,v", "3,2,v"}
  /\ Len(inventory) = 9
  /\ ~InInventory("piece-1")

(***************************************************************************)
(* C5.  A Drop of a piece picked up from inventory, at a position where    *)
(* some absolute segment is off the board or occupied, leaves board and    *)
(* inventory as they were (the piece still in inventory) and only clears   *)
(* dragState.                                                              *)
(***************************************************************************)
C5_RejectedDropFromInventory ==
  [][ (Dispatched("Drop") /\ dragState.sourceType = "inventory"
         /\ ~hist'[Len(hist')].arg.fits)
      => /\ board' = board
         /\ inventory' = inventory
         /\ InInventory(dragState.piece.id)
         /\ dragState' = null ]_vars

\* a drop from inventory was rejected because a segment was occupied
C5_Witness ==
  /\ dragState = null
  /\ hist # << >>
  /\ hist[1].arg.source = "inventory"
  /\ LastEntry.op = "Drop"
  /\ ~LastEntry.arg.fits
  /\ LastEntry.arg.inRange
  /\ Len(board.placedPieces) = 1
  /\ Len(inventory) = 9

(***************************************************************************)
(* C6.  From a state with dragState null and occupancy equal to the union  *)
(* of the placed footprints: PickUp of a placed piece, any number of       *)
(* Rotate actions on the dragged piece, then a Drop that is rejected,      *)
(* leaves placedPieces and occupiedSegments as before the PickUp (the      *)
(* snapshot's footprint is re-added, not the rotated piece's).  Stated on  *)
(* the runs of the machine, and on every state reached by such a PickUp    *)
(* for 0..4 rotations in either direction and every drop position.         *)
(***************************************************************************)
C6_RejectedDropRestoresSnapshot ==
  /\ (/\ DragFrom("board")
      /\ Len(hist) >= 2
      /\ OnlyDraggedRotations(Len(hist))
      /\ LastEntry.op = "Drop"
      /\ ~LastEntry.arg.fits
      /\ Consistent(pre.board))
     => /\ board = pre.board
        /\ dragState = null
  /\ (/\ DragFrom("board")
      /\ Len(hist) = 1
      /\ Consistent(pre.board))
     => \A direction \in Directions, n \in 0..Cardinality(Rotation) :
          LET rotated == RotatedDrag(State, direction, n)
          IN  \A position \in Positions :
                ~Fits(rotated.dragState.piece, position, rotated.board.occupiedSegments)
                  => LET dropped == DROP_PIECE(rotated, position)
                     IN  dropped.board = pre.board /\ dropped.dragState = null

\* a board piece was picked up, rotated and dropped where it does not fit
C6_Witness ==
  /\ DragFrom("board")
  /\ Len(hist) >= 3
  /\ OnlyDraggedRotations(Len(hist))
  /\ LastEntry.op = "Drop"
  /\ ~LastEntry.arg.fits
  /\ Consistent(pre.board)
  /\ board = pre.board
  /\ Len(board.placedPieces) >= 1

(***************************************************************************)
(* C7.  PickUp of a placed piece, any number of Rotate actions on the      *)
(* dragged piece, then Cancel, gives back the board, the inventory and the *)
(* null dragState of before the PickUp.  It fails from the states in which *)
(* C1 is broken: Cancel re-adds a footprint that occupiedSegments had      *)
(* already lost before the PickUp.                                         *)
(***************************************************************************)
C7_CancelRestoresBoardDrag ==
  (/\ DragFrom("board")
   /\ Len(hist) >= 2
   /\ OnlyDraggedRotations(Len(hist))
   /\ LastEntry.op = "Cancel")
  => /\ board = pre.board
     /\ inventory = pre.inventory
     /\ dragState = null

(***************************************************************************)
(* C8.  From any state with dragState null, PickUp of an inventory piece   *)
(* followed at once by Cancel gives the same inventory (pieces, order,     *)
(* rotations), the same board and dragState null.                          *)
(***************************************************************************)
C8_PickUpCancelIsIdentity ==
  (/\ DragFrom("inventory")
   /\ Len(hist) = 2
   /\ LastEntry.op = "Cancel")
  => /\ inventory = pre.inventory
     /\ board = pre.board
     /\ dragState = null
     /\ State = pre

\* pickup and cancel of an inventory piece, with a piece on the board and a
\* rotated piece in inventory
C8_Witness ==
  /\ DragFrom("inventory")
  /\ Len(hist) = 2
  /\ LastEntry.op = "Cancel"
  /\ Len(board.placedPieces) >= 1
  /\ \E i \in 1..Len(inventory) : inventory[i].rotation # 0

(***************************************************************************)
(* C9.  From a state with dragState null and consistent occupancy, PickUp  *)
(* of a placed piece at p followed by Drop at the same p succeeds (no      *)
(* collision with the piece's own former footprint) and leaves             *)
(* placedPieces and occupiedSegments as before the PickUp.                 *)
(***************************************************************************)
C9_DropBackAtSource ==
  [][ (/\ Dispatched("Drop")
       /\ DragFrom("board")
       /\ Len(hist) = 1
       /\ hist'[2].arg.atSource
       /\ Consistent(pre.board))
      => /\ ~checkCollision(dragState.piece, dragState.sourcePosition,
                            board.occupiedSegments)
         /\ hist'[2].arg.fits
         /\ board' = pre.board
         /\ dragState' = null ]_vars

\* a placed piece was picked up and dropped back where it was, next to another
C9_Witness ==
  /\ DragFrom("board")
  /\ Len(hist) = 2
  /\ LastEntry.op = "Drop"
  /\ LastEntry.arg.atSource
  /\ LastEntry.arg.fits
  /\ dragState = null
  /\ board = pre.board
  /\ Len(board.placedPieces) >= 1

(***************************************************************************)
(* C10.  A piece rotated one or more times while in dragState and then     *)
(* dropped successfully is placed with the rotated rotation value (the     *)
(* rotation at pickup plus 90 per clockwise and minus 90 per               *)
(* counterclockwise turn, modulo 360): the dragged piece the collision     *)
(* check reads is that rotated piece, the placedPieces entry carries it,   *)
(* and occupiedSegments gains exactly its footprint at the drop position.  *)
(***************************************************************************)
C10_RotatedDropPlacesRotated ==
  [][ (/\ Dispatched("Drop")
       /\ hist'[Len(hist')].arg.fits
       /\ \E k \in 2..Len(hist) : hist[k].op = "Rotate" /\ hist[k].arg.dragged)
      => LET position == hist'[Len(hist')].arg.position
             rotation == (PickedRotation + 90 * NetTurns(Len(hist))) % 360
             number == dragState.piece.number
             rotated == [id |-> dragState.piece.id, number |-> number,
                         rotation |-> rotation,
                         segments |-> rotateSegments(SEGMENT_PATTERNS[number], rotation)]
             placed == board'.placedPieces
         IN  /\ dragState.piece = rotated
             /\ ~checkCollision(rotated, position, board.occupiedSegments)
             /\ \E i \in 1..Len(placed) :
                  /\ placed[i] = [piece |-> rotated, position |-> position]
                  /\ \A j \in 1..Len(placed) : placed[j].piece.id = rotated.id => j = i
             /\ board'.occupiedSegments =
                  board.occupiedSegments \cup Footprint(rotated, position)
             /\ dragState' = null ]_vars

\* a placed piece was picked up, turned and dropped: it lies on the board turned
C10_Witness ==
  /\ DragFrom("board")
  /\ Len(hist) >= 3
  /\ hist[2].op = "Rotate" /\ hist[2].arg.dragged
  /\ LastEntry.op = "Drop"
  /\ LastEntry.arg.fits
  /\ dragState = null
  /\ \E i \in 1..Len(board.placedPieces) :
       /\ board.placedPieces[i].position = LastEntry.arg.position
       /\ board.placedPieces[i].piece.rotation \in {90, 270}
       /\ Footprint(board.placedPieces[i].piece, LastEntry.arg.position)
            \subseteq board.occupiedSegments

(***************************************************************************)
(* Vocabulary of the properties of the library functions                   *)
(***************************************************************************)
FourTimes(direction) == <<direction, direction, direction, direction>>

Opposite(direction) == IF direction = "clockwise" THEN "counterclockwise" ELSE "clockwise"

\* least x and least y over the anchors of a non-empty segment sequence
MinX(segments) == SetMin({segments[i].x : i \in 1..Len(segments)})

MinY(segments) == SetMin({segments[i].y : i \in 1..Len(segments)})

(***************************************************************************)
(* C11.  For every digit and every starting rotation, rotatePiece applied  *)
(* four times clockwise, or four times counterclockwise, returns a piece   *)
(* with exactly the starting rotation and segment sequence.  Stated on the *)
(* calls made so far and on four further calls from every piece reached.   *)
(***************************************************************************)
C11_FourTurnsRestore ==
  probe.kind = "piece" =>
    /\ \A direction \in Directions :
         probe.turns = FourTimes(direction)
           => /\ probe.piece.rotation = probe.start.rotation
              /\ probe.piece.segments = probe.start.segments
              /\ probe.piece = probe.start
    /\ \A direction \in Directions :
         turned(probe.piece, direction, 4) = probe.piece

\* digit 1, started at rotation 90, turned clockwise four times
C11_Witness ==
  /\ probe.kind = "piece"
  /\ probe.start.number = 1
  /\ probe.start.rotation = 90
  /\ probe.turns = FourTimes("clockwise")
  /\ probe.piece.rotation = 90
  /\ probe.piece.segments = probe.start.segments

(***************************************************************************)
(* C12.  rotatePiece changes the rotation by exactly +90 (clockwise) or    *)
(* -90 (counterclockwise) modulo 360; the result is one of 0, 90, 180,     *)
(* 270 (0 counterclockwise gives 270, 270 clockwise gives 0); and a step   *)
(* in one direction followed by a step in the other restores the rotation  *)
(* and the segments.                                                       *)
(***************************************************************************)
C12_QuarterTurnModulo360 ==
  probe.kind = "piece" =>
    /\ probe.piece.rotation \in Rotation
    /\ \A direction \in Directions :
         LET p == probe.piece
             q == rotatePiece(p, direction)
             back == rotatePiece(q, Opposite(direction))
         IN  /\ q.rotation = (IF direction = "clockwise" THEN p.rotation + 90
                                                         ELSE p.rotation + 270) % 360
             /\ q.rotation \in Rotation
             /\ (p.rotation = 0 /\ direction = "counterclockwise") => q.rotation = 270
             /\ (p.rotation = 270 /\ direction = "clockwise") => q.rotation = 0
             /\ back.rotation = p.rotation
             /\ back.segments = p.segments
    /\ (Len(probe.turns) = 2 /\ probe.turns[2] = Opposite(probe.turns[1]))
         => /\ probe.piece.rotation = probe.start.rotation
            /\ probe.piece.segments = probe.start.segments

\* a piece at rotation 0 turned counterclockwise (to 270) and clockwise again
C12_Witness ==
  /\ probe.kind = "piece"
  /\ probe.start.rotation = 0
  /\ probe.turns = <<"counterclockwise", "clockwise">>
  /\ probe.piece = probe.start
  /\ rotatePiece(probe.start, "counterclockwise").rotation = 270

Translated(piece, position) ==
  {Segment(position.x + piece.segments[i].x, position.y + piece.segments[i].y,
           piece.segments[i].orientation) : i \in 1..Len(piece.segments)}

\* horizontal: 0 <= x <= 4 and 0 <= y <= 4; vertical: 0 <= x <= 5 and 0 <= y <= 3
InRange(segment) ==
  IF segment.orientation = "horizontal"
    THEN segment.x \in 0..4 /\ segment.y \in 0..4
    ELSE segment.x \in 0..5 /\ segment.y \in 0..3

(***************************************************************************)
(* C14.  checkCollision(piece, position, occupied) is true if and only if  *)
(* some absolute segment of the piece (a local segment translated by the   *)
(* position) lies outside the valid range of its orientation or has its id *)
(* in the occupied set.                                                    *)
(***************************************************************************)
C14_CollisionIffOutOfRangeOrOccupied ==
  probe.kind = "collision" =>
    LET expected ==
          \E segment \in Translated(probe.piece, probe.position) :
            ~InRange(segment) \/ segmentToId(segment) \in probe.occupied
    IN  /\ probe.done => probe.result = expected
        /\ checkCollision(probe.piece, probe.position, probe.occupied) = expected

\* a collision with an occupied segment only: every segment is in range
C14_Witness ==
  /\ probe.kind = "collision"
  /\ probe.done
  /\ probe.result
  /\ probe.piece.rotation = 90
  /\ \A segment \in Translated(probe.piece, probe.position) : InRange(segment)
  /\ \E segment \in Translated(probe.piece, probe.position) :
       segmentToId(segment) \in probe.occupied

(***************************************************************************)
(* C15.  getAllBoardSegments returns exactly 49 pairwise distinct          *)
(* segments, 25 horizontal and 24 vertical, and a segment is in the list   *)
(* if and only if it passes the range test of checkCollision.              *)
(***************************************************************************)
C15_BoardSegmentsAreTheInRangeOnes ==
  probe.kind = "segment" =>
    LET all == getAllBoardSegments
        idx == 1..Len(all)
        listed == \E i \in idx : all[i] = probe.segment
    IN  /\ Len(all) = 49
        /\ \A i, j \in idx : all[i] = all[j] => i = j
        /\ Cardinality({i \in idx : all[i].orientation = "horizontal"}) = 25
        /\ Cardinality({i \in idx : all[i].orientation = "vertical"}) = 24
        /\ listed <=> ~outOfBounds(probe.segment)
        /\ probe.done => (probe.onBoard <=> ~outOfBounds(probe.segment))

\* the bottom-right horizontal segment was looked up and found
C15_Witness ==
  /\ probe.kind = "segment"
  /\ probe.done
  /\ probe.segment = Segment(4, 4, "horizontal")
  /\ probe.onBoard
  /\ ~outOfBounds(probe.segment)

\* the seven segments of the display, by letter
SegmentOf ==
  [a |-> Segment(0, 0, "horizontal"), b |-> Segment(1, 0, "vertical"),
   c |-> Segment(1, 1, "vertical"),   d |-> Segment(0, 2, "horizontal"),
   e |-> Segment(0, 1, "vertical"),   f |-> Segment(0, 0, "vertical"),
   g |-> Segment(0, 1, "horizontal")]

\* the table of digits, in letters
LettersOf ==
  [n \in PieceNumber |->
    CASE n = 0 -> <<"a", "b", "g", "f">>
      [] n = 1 -> <<"b", "c">>
      [] n = 2 -> <<"a", "b", "g", "e", "d">>
      [] n = 3 -> <<"a", "b", "g", "c", "d">>
      [] n = 4 -> <<"f", "g", "b", "c">>
      [] n = 5 -> <<"a", "f", "g", "c", "d">>
      [] n = 6 -> <<"a", "f", "g", "e", "d", "c">>
      [] n = 7 -> <<"a", "b", "c">>
      [] n = 8 -> <<"a", "b", "c", "d", "e", "f", "g">>
      [] n = 9 -> <<"a", "b", "c", "d", "f", "g">>]

SegmentCounts == <<4, 2, 5, 5, 4, 5, 6, 3, 7, 6>>

(***************************************************************************)
(* C16.  For every digit the base pattern SEGMENT_PATTERNS[d] is exactly   *)
(* the table 0:a,b,g,f 1:b,c 2:a,b,g,e,d 3:a,b,g,c,d 4:f,g,b,c 5:a,f,g,c,d *)
(* 6:a,f,g,e,d,c 7:a,b,c 8:a..g 9:a,b,c,d,f,g under a=(0,0,h), b=(1,0,v),  *)
(* c=(1,1,v), d=(0,2,h), e=(0,1,v), f=(0,0,v), g=(0,1,h); the segment      *)
(* counts are 4,2,5,5,4,5,6,3,7,6 and digit 0 has exactly 4 segments.      *)
(* Read off the pieces getInitialState builds and off the table itself.    *)
(***************************************************************************)
C16_BasePatternsAreTheTable ==
  (probe.kind = "piece" /\ probe.start.rotation = 0 /\ probe.turns = << >>) =>
    LET n == probe.piece.number
        expected == [i \in 1..Len(LettersOf[n]) |-> SegmentOf[LettersOf[n][i]]]
    IN  /\ SEGMENT_PATTERNS[n] = expected
        /\ probe.piece.segments = expected
        /\ Len(SEGMENT_PATTERNS[n]) = SegmentCounts[n + 1]
        /\ Len(SEGMENT_PATTERNS[0]) = 4

\* the piece of digit 0 as built: a, b, g, f
C16_Witness ==
  /\ probe.kind = "piece"
  /\ probe.turns = << >>
  /\ probe.piece.number = 0
  /\ probe.piece.rotation = 0
  /\ probe.piece.segments =
       << Segment(0, 0, "horizontal"), Segment(1, 0, "vertical"),
          Segment(0, 1, "horizontal"), Segment(0, 0, "vertical") >>

(***************************************************************************)
(* C17.  segmentToId is injective: two segments with integer coordinates,  *)
(* negative ones included, have equal ids if and only if x, y and          *)
(* orientation are all equal; and it is stable: the same segment yields    *)
(* the same id again.                                                      *)
(***************************************************************************)
C17_SegmentToIdInjective ==
  probe.kind = "segment" =>
    /\ \A other \in ProbeSegments :
         (segmentToId(probe.segment) = segmentToId(other))
           <=> (/\ probe.segment.x = other.x
                /\ probe.segment.y = other.y
                /\ probe.segment.orientation = other.orientation)
    /\ probe.done => probe.id = segmentToId(probe.segment)

\* the id of a segment left of the board
C17_Witness ==
  /\ probe.kind = "segment"
  /\ probe.done
  /\ probe.segment = Segment(0 - 1, 1, "vertical")
  /\ probe.id = "-1,1,v"
  /\ probe.id # segmentToId(Segment(1, 0 - 1, "vertical"))
  /\ probe.id # segmentToId(Segment(0 - 1, 1, "horizontal"))

\* the latest action was a RESET_BOARD
JustReset == pre \in {ResetFrom(d, p, r) : d \in BOOLEAN, p \in BOOLEAN, r \in BOOLEAN}

(***************************************************************************)
(* C18.  From every reachable state, mid-drag states and states with       *)
(* rotated or placed pieces included, Reset yields exactly the initial     *)
(* state: inventory holds piece-0 .. piece-9 in order, each with rotation  *)
(* 0 and its base segment pattern, placedPieces and occupiedSegments are   *)
(* empty and dragState is null.                                            *)
(***************************************************************************)
C18_ResetYieldsInitialState ==
  /\ RESET_BOARD(State) = getInitialState
  /\ JustReset =>
       /\ State = getInitialState
       /\ Len(inventory) = 10
       /\ \A k \in 1..10 :
            /\ inventory[k].id = "piece-" \o ToString(k - 1)
            /\ inventory[k].number = k - 1
            /\ inventory[k].rotation = 0
            /\ inventory[k].segments = SEGMENT_PATTERNS[k - 1]
       /\ board.placedPieces = << >>
       /\ board.occupiedSegments = {}
       /\ dragState = null

\* reset in the middle of a drag, with a piece placed and an inventory piece rotated
C18_Witness ==
  /\ pre = ResetFrom(TRUE, TRUE, TRUE)
  /\ steps >= 4
  /\ State = getInitialState

\* ids no piece has
UnknownIds == {"piece-10", "piece-", ""}

\* the rotation of the piece with this id in a placedPieces sequence
PlacedRotation(placed, id) ==
  placed[CHOOSE i \in 1..Len(placed) : placed[i].piece.id = id].piece.rotation

(***************************************************************************)
(* C19.  Rotate(pieceId, direction) with an id that is neither the id of   *)
(* an inventory piece nor the id of the piece in dragState (an unknown id, *)
(* or a piece placed on the board and not being dragged) returns the state *)
(* unchanged; so the rotation of a placed piece changes only in a step     *)
(* taken while that piece is being dragged.                                *)
(***************************************************************************)
C19_RotateOfUnheldPieceIsNoOp ==
  /\ [](\A id \in AllPieceIds \cup UnknownIds, direction \in Directions :
          (~InInventory(id) /\ ~InFlight(id))
            => ROTATE_PIECE(State, id, direction) = State)
  /\ [][ /\ (/\ Dispatched("Rotate")
             /\ ~hist'[Len(hist')].arg.dragged
             /\ ~hist'[Len(hist')].arg.listed)
            => (board' = board /\ inventory' = inventory /\ dragState' = dragState)
         /\ \A id \in AllPieceIds :
              (/\ OnBoard(id)
               /\ \E i \in 1..Len(board'.placedPieces) : board'.placedPieces[i].piece.id = id
               /\ PlacedRotation(board'.placedPieces, id) # PlacedRotation(board.placedPieces, id))
                => InFlight(id) ]_vars

\* during a drag, Rotate was dispatched for a piece that lies on the board
C19_Witness ==
  /\ dragState # null
  /\ Len(hist) >= 2
  /\ LastEntry.op = "Rotate"
  /\ ~LastEntry.arg.dragged
  /\ ~LastEntry.arg.listed
  /\ \E i \in 1..Len(board.placedPieces) :
       /\ board.placedPieces[i].piece.id # dragState.piece.id
       /\ board.placedPieces[i].piece.rotation = 0

(***************************************************************************)
(* C20.  When dragState is null, Drop(position), for any position, and     *)
(* Cancel return the state unchanged: no placement, no occupancy change,   *)
(* no inventory change.                                                    *)
(***************************************************************************)
C20_DropAndCancelNeedADrag ==
  /\ [](dragState = null =>
          /\ \A position \in Positions \cup ProbePositions :
               DROP_PIECE(State, position) = State
          /\ CANCEL_DRAG(State) = State)
  /\ [][ pre' \in {IdleOp("Drop"), IdleOp("Cancel")}
           => /\ dragState = null
              /\ board' = board
              /\ inventory' = inventory
              /\ dragState' = null ]_vars

\* Drop was dispatched with no drag active, a piece placed and a piece rotated
C20_Witness ==
  /\ pre = IdleOp("Drop")
  /\ dragState = null
  /\ Len(board.placedPieces) = 1
  /\ board.occupiedSegments # {}
  /\ Len(inventory) = 9
  /\ \E i \in 1..Len(inventory) : inventory[i].rotation # 0

\* the state with a drag whose source position and snapshot were not recorded
WithoutSourcePosition(state) ==
  [state EXCEPT !.dragState.sourcePosition = undefined,
                !.dragState.sourcePiece = undefined]

(***************************************************************************)
(* C21.  Every Drop executed while a drag is active ends with dragState =  *)
(* null whatever its outcome (success, rejection with inventory source,    *)
(* rejection with board source, board source without a recorded source     *)
(* position); and dragState is non-null only in states reached by a PickUp *)
(* with no Drop, Cancel, ReturnToInventory or Reset since that PickUp.     *)
(***************************************************************************)
C21_DropEndsTheDrag ==
  /\ (hist # << >> /\ LastEntry.op = "Drop") => dragState = null
  /\ dragState # null =>
       /\ \A position \in {[x |-> 0 - 1, y |-> 0 - 1], [x |-> 0, y |-> 0]} :
            /\ DROP_PIECE(State, position).dragState = null
            /\ DROP_PIECE(WithoutSourcePosition(State), position).dragState = null
       /\ hist # << >>
       /\ hist[1].op = "PickUp"
       /\ \A k \in 2..Len(hist) : hist[k].op = "Rotate"
       /\ pre # null
       /\ ~JustReset

\* a board piece was dragged, turned and dropped off the board: the drag is over
C21_Witness ==
  /\ hist # << >>
  /\ hist[1] = Entry("PickUp", [source |-> "board", nested |-> FALSE])
  /\ Len(hist) >= 3
  /\ LastEntry.op = "Drop"
  /\ ~LastEntry.arg.fits
  /\ ~LastEntry.arg.inRange
  /\ dragState = null
  /\ board.occupiedSegments # {}

\* the latest action was a PickUp dispatched while a drag was active
NestedPickUp == hist # << >> /\ Len(hist) = 1 /\ hist[1].arg.nested

(***************************************************************************)
(* C22.  A PickUp that arrives while a drag is active, for the same or a   *)
(* different piece, from inventory or board, leaves the game state         *)
(* (dragState, occupiedSegments, placedPieces, inventory) unchanged.       *)
(* Neither the reducer nor the handlers that dispatch PICK_UP_PIECE test   *)
(* dragState: the pickup replaces the drag, and the occupancy a board      *)
(* pickup removed is neither restored nor remembered.                      *)
(***************************************************************************)
C22_PickUpDuringDragIsNoOp ==
  NestedPickUp =>
    /\ dragState = pre.dragState
    /\ board.occupiedSegments = pre.board.occupiedSegments
    /\ board.placedPieces = pre.board.placedPieces
    /\ inventory = pre.inventory

\* the piece with this id is the one in flight, picked up from inventory
InFlightFromInventory(id) == InFlight(id) /\ dragState.sourceType = "inventory"

(***************************************************************************)
(* C23.  ReturnToInventory(piece), in any reachable state where the piece  *)
(* is on the board and is not the in-flight piece of an inventory drag (a  *)
(* different piece may be in flight), removes the piece's entry from       *)
(* placedPieces and its segment ids from occupiedSegments and leaves the   *)
(* piece exactly once in inventory, with dragState null.  The reducer      *)
(* tests only the drag's source type, not which piece is dragged: while    *)
(* any piece is dragged from inventory it just clears the drag.            *)
(***************************************************************************)
C23_ReturnRemovesPlacedPiece ==
  \A k \in 1..Len(board.placedPieces), piece \in PiecesInPlay :
    LET entry == board.placedPieces[k]
        id == entry.piece.id
        returned == RETURN_TO_INVENTORY(State, piece)
    IN  (piece.id = id /\ ~InFlightFromInventory(id))
          => /\ \A i \in 1..Len(returned.board.placedPieces) :
                  returned.board.placedPieces[i].piece.id # id
             /\ returned.board.occupiedSegments =
                  board.occupiedSegments \ Footprint(entry.piece, entry.position)
             /\ Cardinality({i \in 1..Len(returned.inventory) :
                               returned.inventory[i].id = id}) = 1
             /\ returned.dragState = null

(***************************************************************************)
(* C24.  When the piece in dragState was picked up from inventory,         *)
(* ReturnToInventory of that piece produces exactly the state Cancel       *)
(* would: dragState null, and inventory (with any rotation applied during  *)
(* the drag), placedPieces and occupiedSegments the same in both.          *)
(***************************************************************************)
C24_ReturnOfInventoryDragIsCancel ==
  /\ (dragState # null /\ dragState.sourceType = "inventory")
       => \A piece \in PiecesInPlay :
            piece.id = dragState.piece.id
              => LET returned == RETURN_TO_INVENTORY(State, piece)
                     cancelled == CANCEL_DRAG(State)
                 IN  /\ returned = cancelled
                     /\ returned.dragState = null
                     /\ returned.inventory = inventory
                     /\ returned.board = board
  /\ (/\ hist # << >>
      /\ hist[1].arg.source = "inventory"
      /\ LastEntry.op = "Return"
      /\ LastEntry.arg.dragged)
       => dragState = null

\* a piece was picked up from inventory, turned and returned: it is in
\* inventory, turned
C24_Witness ==
  /\ DragFrom("inventory")
  /\ Len(hist) = 3
  /\ hist[2].op = "Rotate" /\ hist[2].arg.dragged
  /\ LastEntry.op = "Return"
  /\ LastEntry.arg.dragged
  /\ dragState = null
  /\ board = pre.board
  /\ \E i \in 1..Len(inventory) :
       /\ inventory[i].id = pre.inventory[i].id
       /\ inventory[i].rotation # pre.inventory[i].rotation

(***************************************************************************)
(* C25.  ReturnToInventory is idempotent per piece: ReturnToInventory of   *)
(* a piece twice in a row yields the same inventory, placedPieces and      *)
(* occupiedSegments as once; and no piece id is ever more than once in     *)
(* inventory.                                                              *)
(***************************************************************************)
ReturnedTwiceAsOnce(piece) ==
  LET once == RETURN_TO_INVENTORY(State, piece)
      twice == RETURN_TO_INVENTORY(once, piece)
  IN  /\ twice.inventory = once.inventory
      /\ twice.board.placedPieces = once.board.placedPieces
      /\ twice.board.occupiedSegments = once.board.occupiedSegments

InventoryIdsDistinct ==
  \A i, j \in 1..Len(inventory) :
    inventory[i].id = inventory[j].id => i = j

C25_ReturnIsIdempotent ==
  /\ \A piece \in PiecesInPlay : ReturnedTwiceAsOnce(piece)
  /\ InventoryIdsDistinct

(***************************************************************************)
(* C26.  For every digit, rotation and integer board position p: the       *)
(* pointer grid coordinate recorded when a placed piece is grabbed,        *)
(* p + getPieceAnchor(piece), maps back through pixelToGrid for that piece *)
(* to exactly p: grabbing a placed piece and releasing it without moving   *)
(* the pointer targets its original position.                              *)
(***************************************************************************)
C26_GrabRoundTrip ==
  (probe.kind = "grab" /\ probe.stage = "hovered") => probe.hover = probe.position

(***************************************************************************)
(* C27.  In every reachable state, for every piece in inventory, in        *)
(* placedPieces and in dragState (the piece and the snapshot), the stored  *)
(* segments field equals the segments derived from (number, rotation) by   *)
(* rotating the base pattern; and the geometry used for collision and      *)
(* occupancy depends only on (number, rotation), never on the id or on the *)
(* stored segments field.                                                  *)
(***************************************************************************)
StoredPieces ==
  PiecesInPlay
    \cup (IF dragState # null /\ dragState.sourcePiece # undefined
            THEN {dragState.sourcePiece} ELSE {})

\* the same (number, rotation) under another id and with no stored segments
Disguised(piece) == [piece EXCEPT !.id = "piece-x", !.segments = << >>]

\* the (piece, position) pairs whose geometry the reducer can be asked for in
\* this state: with no drag the placed entries (a pickup from the board, a
\* return), with a drag the dragged piece at its source position, or at a
\* corner of the drop area when it has none
GeometryUses ==
  IF dragState = null
    THEN {<<board.placedPieces[i].piece, board.placedPieces[i].position>> :
            i \in 1..Len(board.placedPieces)}
    ELSE {<<dragState.piece,
            IF dragState.sourcePosition # undefined
              THEN dragState.sourcePosition
              ELSE [x |-> DropOrder[1][1], y |-> DropOrder[1][2]]>>}

C27_SegmentsDerivedFromNumberAndRotation ==
  /\ \A piece \in StoredPieces :
       piece.segments = rotateSegments(SEGMENT_PATTERNS[piece.number], piece.rotation)
  /\ \A use \in GeometryUses :
       LET piece == use[1]
           position == use[2]
       IN  /\ getPieceSegmentPositions(Disguised(piece), position)
                = getPieceSegmentPositions(piece, position)
           /\ checkCollision(Disguised(piece), position, board.occupiedSegments)
                = checkCollision(piece, position, board.occupiedSegments)
           /\ \A action \in {"add", "remove"} :
                updateOccupiedSegments(board.occupiedSegments, Disguised(piece),
                                       position, action)
                  = updateOccupiedSegments(board.occupiedSegments, piece, position, action)

\* a placed piece is being dragged and has been turned: the snapshot and the
\* placed entry keep the old rotation, the dragged piece has the new one
C27_Witness ==
  /\ dragState # null
  /\ dragState.sourcePiece # undefined
  /\ dragState.sourcePiece.rotation # dragState.piece.rotation
  /\ dragState.piece.segments # dragState.sourcePiece.segments
  /\ \E i \in 1..Len(board.placedPieces) :
       board.placedPieces[i].piece = dragState.sourcePiece

(***************************************************************************)
(* C28.  For a placed piece picked up from the board at position p and     *)
(* dropped successfully at position q, with or without rotation during the *)
(* drag: placedPieces keeps its length and order, the entry with that      *)
(* piece id becomes {dragged piece, q} and every other entry is unchanged, *)
(* inventory is unchanged, and occupiedSegments is the set before the      *)
(* pickup minus the original footprint at p plus the dropped piece's       *)
(* footprint at q.                                                         *)
(***************************************************************************)
\* the index of the entry of piece id in the placed pieces of the pickup state
PickedIndex(id) ==
  CHOOSE k \in 1..Len(pre.board.placedPieces) : pre.board.placedPieces[k].piece.id = id

\* `dropped` is what the claim says of a successful drop at q of the piece
\* dragged in the current state
BoardDropAsClaimed(dropped, q) ==
  LET piece == dragState.piece
      k == PickedIndex(piece.id)
      picked == pre.board.placedPieces[k]
  IN  /\ picked.position = dragState.sourcePosition
      /\ Len(dropped.board.placedPieces) = Len(pre.board.placedPieces)
      /\ \A i \in 1..Len(pre.board.placedPieces) :
           dropped.board.placedPieces[i] =
             IF i = k THEN [piece |-> piece, position |-> q]
             ELSE pre.board.placedPieces[i]
      /\ dropped.inventory = pre.inventory
      /\ dropped.board.occupiedSegments =
           (pre.board.occupiedSegments \ Footprint(picked.piece, picked.position))
             \cup Footprint(piece, q)
      /\ dropped.dragState = null

\* the drag began with a pickup from the board and has seen only turns of the
\* dragged piece
BoardDragInProgress ==
  /\ dragState # null
  /\ DragFrom("board")
  /\ OnlyDraggedRotations(Len(hist) + 1)

C28_BoardDropReplacesEntry ==
  /\ [](BoardDragInProgress
          => \A q \in Positions :
               ~checkCollision(dragState.piece, q, board.occupiedSegments)
                 => BoardDropAsClaimed(DROP_PIECE(State, q), q))
  /\ [][ (/\ BoardDragInProgress
          /\ Dispatched("Drop")
          /\ hist'[Len(hist')].arg.fits)
         => BoardDropAsClaimed([board |-> board', inventory |-> inventory',
                                dragState |-> dragState'],
                               hist'[Len(hist')].arg.position) ]_vars

\* a placed piece was picked up, turned and dropped elsewhere
C28_Witness ==
  /\ DragFrom("board")
  /\ Len(hist) = 3
  /\ hist[2].op = "Rotate" /\ hist[2].arg.dragged
  /\ LastEntry.op = "Drop"
  /\ LastEntry.arg.fits
  /\ ~LastEntry.arg.atSource
  /\ dragState = null
  /\ Len(board.placedPieces) = Len(pre.board.placedPieces)
  /\ board.placedPieces[1].position = LastEntry.arg.position
  /\ board.placedPieces[1].position # pre.board.placedPieces[1].position
  /\ board.placedPieces[1].piece.rotation # pre.board.placedPieces[1].piece.rotation

(***************************************************************************)
(* C29.  updateOccupiedSegments is a functional, element-wise idempotent   *)
(* update: it never modifies its input set; adding a piece's footprint     *)
(* twice equals adding it once; removing twice equals removing once; and   *)
(* for a set disjoint from the footprint, add followed by remove of the    *)
(* same piece at the same position returns a set equal to the original.    *)
(***************************************************************************)
C29_UpdateOccupiedSegmentsIdempotent ==
  (probe.kind = "occupancy" /\ probe.operations # << >>)
    => LET footprint == Footprint(probe.piece, probe.position)
           first == probe.results[1]
       IN  /\ probe.operations[1] = "add" => first = probe.occupied \cup footprint
           /\ probe.operations[1] = "remove" => first = probe.occupied \ footprint
           /\ Len(probe.operations) = 2 =>
                LET second == probe.results[2]
                IN  /\ probe.operations = <<"add", "add">> => second = first
                    /\ probe.operations = <<"remove", "remove">> => second = first
                    /\ (probe.operations = <<"add", "remove">>
                          /\ probe.occupied \cap footprint = {})
                         => second = probe.occupied

\* a footprint was added twice to a set that held part of it and other ids
C29_Witness ==
  /\ probe.kind = "occupancy"
  /\ probe.operations = <<"add", "add">>
  /\ probe.occupied \cap Footprint(probe.piece, probe.position) # {}
  /\ probe.occupied \ Footprint(probe.piece, probe.position) # {}
  /\ Footprint(probe.piece, probe.position) \ probe.occupied # {}
  /\ probe.results[2] = probe.results[1]
  /\ probe.results[1] # probe.occupied

(***************************************************************************)
(* C30.  A drag with no Rotate action in it preserves the piece's          *)
(* rotation: for a piece with rotation r picked up from inventory or       *)
(* board, after a successful Drop, a rejected Drop, a Cancel or a          *)
(* ReturnToInventory of the dragged piece, the piece's rotation in the     *)
(* place where it ends up (board entry or inventory entry) is r.           *)
(***************************************************************************)
\* the rotations under which piece id is stored in inventory inv and on board b
StoredRotations(id, inv, b) ==
  {inv[i].rotation : i \in {i \in 1..Len(inv) : inv[i].id = id}}
    \cup {b.placedPieces[i].piece.rotation :
            i \in {i \in 1..Len(b.placedPieces) : b.placedPieces[i].piece.id = id}}

C30_DragWithoutRotateKeepsRotation ==
  [][ (/\ dragState # null
       /\ Len(hist) = 1
       /\ \/ Dispatched("Drop")
          \/ Dispatched("Cancel")
          \/ Dispatched("Return") /\ hist'[2].arg.dragged)
      => /\ dragState' = null
         /\ dragState.piece.rotation = PickedRotation
         /\ StoredRotations(dragState.piece.id, inventory', board') = {PickedRotation} ]_vars

\* a turned piece was placed, picked up from the board and dropped where it does
\* not fit: it is on the board, turned as before
C30_Witness ==
  /\ DragFrom("board")
  /\ Len(hist) = 2
  /\ LastEntry.op = "Drop"
  /\ ~LastEntry.arg.fits
  /\ dragState = null
  /\ Len(board.placedPieces) = 1
  /\ board.placedPieces[1].piece.rotation # 0
  /\ board = pre.board

(***************************************************************************)
(* C31.  Every position stored in board.placedPieces is a grid coordinate  *)
(* with 0 <= x <= 4 and 0 <= y <= 3, as documented for BoardPosition; no   *)
(* Drop is accepted at a position with a negative coordinate, with x = 5   *)
(* or with y = 4.  checkCollision tests the segments, not the position:    *)
(* digit 1, whose segments start at x = 1, is accepted at x = -1.          *)
(***************************************************************************)
DocumentedPosition(position) ==
  /\ 0 <= position.x /\ position.x <= 4
  /\ 0 <= position.y /\ position.y <= 3

InventoryIds == {inventory[i].id : i \in 1..Len(inventory)}

PlacedIds == {board.placedPieces[i].piece.id : i \in 1..Len(board.placedPieces)}

C32_PieceConservation ==
  /\ InventoryIds \cap PlacedIds = {}
  /\ Cardinality(InventoryIds) = Len(inventory)
  /\ Cardinality(PlacedIds) = Len(board.placedPieces)
  /\ InventoryIds \cup PlacedIds = AllPieceIds
  /\ dragState # null =>
       /\ dragState.sourceType = "inventory" => dragState.piece.id \in InventoryIds
       /\ dragState.sourceType = "board" => dragState.piece.id \in PlacedIds

\* a placed piece was picked up and returned: it is last in inventory, the
\* board is empty
C32_Witness ==
  /\ DragFrom("board")
  /\ LastEntry.op = "Return"
  /\ LastEntry.arg.dragged
  /\ dragState = null
  /\ Len(inventory) = 10
  /\ inventory[10].id # "piece-9"
  /\ PlacedIds = {}

(***************************************************************************)
(* C33.  While a piece picked up from inventory is in dragState, the       *)
(* inventory entry with the same id always has the same rotation as        *)
(* dragState.piece: a Rotate of that id during the drag rotates both       *)
(* copies in the same step, so a Cancel or rejected Drop leaves the        *)
(* inventory piece with the rotation the user saw during the drag.         *)
(***************************************************************************)
\* the inventory entry of piece id in inventory inv
InventoryEntry(inv, id) == inv[CHOOSE i \in 1..Len(inv) : inv[i].id = id]

InventoryDrag == dragState # null /\ dragState.sourceType = "inventory"

C33_InventoryCopyFollowsDrag ==
  /\ [](InventoryDrag
          => /\ InInventory(dragState.piece.id)
             /\ InventoryEntry(inventory, dragState.piece.id).rotation
                  = dragState.piece.rotation)
  /\ [][ (InventoryDrag /\ Dispatched("Rotate") /\ hist'[Len(hist')].arg.dragged)
         => /\ dragState' # null
            /\ dragState'.piece.rotation # dragState.piece.rotation
            /\ InventoryEntry(inventory', dragState.piece.id).rotation
                 = dragState'.piece.rotation ]_vars
  /\ [][ (/\ InventoryDrag
          /\ \/ Dispatched("Cancel")
             \/ Dispatched("Drop") /\ ~hist'[Len(hist')].arg.fits)
         => /\ dragState' = null
            /\ InventoryEntry(inventory', dragState.piece.id).rotation
                 = dragState.piece.rotation ]_vars

\* an inventory piece was picked up, turned and cancelled: it is in inventory
\* with the turned rotation
C33_Witness ==
  /\ DragFrom("inventory")
  /\ Len(hist) = 3
  /\ hist[2].op = "Rotate" /\ hist[2].arg.dragged
  /\ LastEntry.op = "Cancel"
  /\ dragState = null
  /\ \E i \in 1..Len(inventory) :
       /\ inventory[i].id = pre.inventory[i].id
       /\ inventory[i].rotation # pre.inventory[i].rotation
  /\ board = pre.board

(***************************************************************************)
(* C34.  Grabbing a placed piece dispatches PICK_UP_PIECE twice with the   *)
(* same piece and position (Board's onPiecePickup, then                    *)
(* startPointerDragFromBoard); applying that PickUp twice in succession    *)
(* yields the same state as applying it once: the same dragState with the  *)
(* un-rotated snapshot, the same occupiedSegments with the footprint       *)
(* removed once.                                                           *)
(***************************************************************************)
\* the dragState a pickup of a placed entry produces
GrabOf(entry) ==
  [piece |-> entry.piece, sourceType |-> "board",
   sourcePosition |-> entry.position, sourcePiece |-> entry.piece]

C34_BoardGrabTwiceIsOnce ==
  /\ \A i \in 1..Len(board.placedPieces) :
       LET entry == board.placedPieces[i]
           once == PICK_UP_PIECE(State, entry.piece, "board", entry.position)
           twice == PICK_UP_PIECE(once, entry.piece, "board", entry.position)
       IN  /\ twice = once
           /\ once.dragState = GrabOf(entry)
           /\ once.board.occupiedSegments
                = board.occupiedSegments \ Footprint(entry.piece, entry.position)
           /\ once.board.placedPieces = board.placedPieces
           /\ once.inventory = inventory
  /\ (/\ NestedPickUp
      /\ hist[1].arg.source = "board"
      /\ \E i \in 1..Len(pre.board.placedPieces) :
           pre.dragState = GrabOf(pre.board.placedPieces[i])
      /\ dragState = pre.dragState)
       => State = pre

\* the second of the two pickups of a grab has been dispatched
C34_Witness ==
  /\ NestedPickUp
  /\ hist[1].arg.source = "board"
  /\ dragState = pre.dragState
  /\ dragState.sourcePiece = dragState.piece
  /\ \E i \in 1..Len(board.placedPieces) : dragState = GrabOf(board.placedPieces[i])
  /\ Footprint(dragState.piece, dragState.sourcePosition) \cap board.occupiedSegments = {}
  /\ State = pre

(***************************************************************************)
(* C35.  The board's placement preview agrees with the reducer: for every  *)
(* piece, position and occupied set, Board.wouldBeValidPlacement(piece,    *)
(* position) is true exactly when checkCollision(piece, position,          *)
(* occupiedSegments) is false, so a Drop at a position previewed as valid  *)
(* always succeeds and one previewed as invalid is always rejected.        *)
(***************************************************************************)
C35_PreviewAgreesWithReducer ==
  (probe.kind = "preview" /\ probe.dropped)
    => /\ probe.valid = ~probe.collision
       /\ probe.valid = Fits(probe.piece, probe.position, probe.occupied)

\* a position on the board previewed as invalid only because a segment is taken
C35_Witness ==
  /\ probe.kind = "preview"
  /\ probe.dropped
  /\ ~probe.valid
  /\ probe.collision
  /\ Footprint(probe.piece, probe.position) \subseteq BoardSegmentIds
  /\ probe.piece.rotation # 0

(***************************************************************************)
(* C36.  On pointer release while a drag is active, GameContainer          *)
(* dispatches exactly one action chosen by priority: Drop at the board     *)
(* hover position if one exists, otherwise ReturnToInventory of the        *)
(* dragged piece if the pointer is over the inventory, otherwise Cancel;   *)
(* after that action dragState is null, so every drag started by a         *)
(* pointer-down is ended by the next pointer-up.                           *)
(***************************************************************************)
PointerReleased == probe.isPointerDragging /\ ~probe'.isPointerDragging

C36_PointerUpEndsTheDrag ==
  /\ [](dragState # null => probe.isPointerDragging)
  /\ [][ (PointerReleased /\ dragState # null)
         => /\ dragState' = null
            /\ IF probe.boardHoverPosition # null
                 THEN /\ probe'.released = "Drop"
                      /\ [board |-> board', inventory |-> inventory',
                          dragState |-> dragState']
                           = DROP_PIECE(State, probe.boardHoverPosition)
               ELSE IF probe.isInventoryHover
                 THEN /\ probe'.released = "Return"
                      /\ [board |-> board', inventory |-> inventory',
                          dragState |-> dragState']
                           = RETURN_TO_INVENTORY(State, dragState.piece)
               ELSE /\ probe'.released = "Cancel"
                    /\ [board |-> board', inventory |-> inventory',
                        dragState |-> dragState']
                         = CANCEL_DRAG(State) ]_vars

\* a placed piece was grabbed and released over the inventory, no board
\* position hovered: it is back in inventory and no drag is left
C36_Witness ==
  /\ probe.kind = "pointer"
  /\ probe.released = "Return"
  /\ ~probe.isPointerDragging
  /\ dragState = null
  /\ Len(inventory) = 10
  /\ inventory[10].id # "piece-9"

(***************************************************************************)
(* C37.  Rotate never changes the board: for every state and every Rotate  *)
(* action, board.placedPieces and board.occupiedSegments are unchanged,    *)
(* dragState's source type, source position and snapshot piece are         *)
(* unchanged, and inventory keeps the same length, order and ids (only the *)
(* rotation and segments of the matching piece change).                    *)
(***************************************************************************)
\* `rotated` differs from the current state as a Rotate of pieceId_ may
RotateFrame(rotated, pieceId_) ==
  /\ rotated.board = board
  /\ (dragState = null) = (rotated.dragState = null)
  /\ dragState # null =>
       /\ rotated.dragState.sourceType = dragState.sourceType
       /\ rotated.dragState.sourcePosition = dragState.sourcePosition
       /\ rotated.dragState.sourcePiece = dragState.sourcePiece
       /\ rotated.dragState.piece.id = dragState.piece.id
       /\ rotated.dragState.piece.number = dragState.piece.number
       /\ dragState.piece.id # pieceId_ => rotated.dragState = dragState
  /\ Len(rotated.inventory) = Len(inventory)
  /\ \A i \in 1..Len(inventory) :
       /\ rotated.inventory[i].id = inventory[i].id
       /\ rotated.inventory[i].number = inventory[i].number
       /\ inventory[i].id # pieceId_ => rotated.inventory[i] = inventory[i]

C37_RotateLeavesBoardAlone ==
  /\ [](\A pieceId_ \in ActiveIds \cup UnknownIds, direction \in Directions :
          RotateFrame(ROTATE_PIECE(State, pieceId_, direction), pieceId_))
  /\ [][ Dispatched("Rotate")
         => /\ board' = board
            /\ dragState' # null
            /\ dragState'.sourceType = dragState.sourceType
            /\ dragState'.sourcePosition = dragState.sourcePosition
            /\ dragState'.sourcePiece = dragState.sourcePiece
            /\ Len(inventory') = Len(inventory)
            /\ \A i \in 1..Len(inventory) : inventory'[i].id = inventory[i].id ]_vars

\* a placed piece in flight was turned: the placed entries, the inventory and
\* the snapshot are as at the pickup
C37_Witness ==
  /\ DragFrom("board")
  /\ Len(hist) = 2
  /\ LastEntry.op = "Rotate"
  /\ LastEntry.arg.dragged
  /\ dragState # null
  /\ dragState.piece.rotation # dragState.sourcePiece.rotation
  /\ board.placedPieces = pre.board.placedPieces
  /\ Len(board.placedPieces) >= 1
  /\ inventory = pre.inventory

(***************************************************************************)
(* C38.  For every digit and every rotation in {0,90,180,270}, the derived *)
(* segments are pairwise distinct and their number equals the base         *)
(* pattern's segment count; at 90 and 270 every segment's orientation is   *)
(* swapped (horizontal and vertical counts exchange) and at 0 and 180      *)
(* orientations are preserved, so a piece always occupies the same number  *)
(* of board segments however it is rotated.                                *)
(***************************************************************************)
CountOf(segments, orientation) ==
  Cardinality({i \in 1..Len(segments) : segments[i].orientation = orientation})

C38_RotationKeepsSegmentCount ==
  probe.kind = "piece"
    => LET base == SEGMENT_PATTERNS[probe.piece.number]
           derived == getPieceSegments(probe.piece)
           swapped == probe.piece.rotation \in {90, 270}
       IN  /\ probe.piece.rotation \in Rotation
           /\ Len(derived) = Len(base)
           /\ \A i, j \in 1..Len(derived) : derived[i] = derived[j] => i = j
           /\ \A i \in 1..Len(derived) :
                (derived[i].orientation # base[i].orientation) = swapped
           /\ CountOf(derived, "horizontal")
                = CountOf(base, IF swapped THEN "vertical" ELSE "horizontal")
           /\ CountOf(derived, "vertical")
                = CountOf(base, IF swapped THEN "horizontal" ELSE "vertical")
           /\ Cardinality(Footprint(probe.piece, [x |-> 0, y |-> 0])) = Len(base)

\* digit 2, three horizontal and two vertical segments, turned to 270: two
\* horizontal and three vertical
C38_Witness ==
  /\ probe.kind = "piece"
  /\ probe.piece.number = 2
  /\ probe.piece.rotation = 270
  /\ Len(probe.turns) >= 1
  /\ CountOf(getPieceSegments(probe.piece), "horizontal") = 2
  /\ CountOf(getPieceSegments(probe.piece), "vertical") = 3

(***************************************************************************)
(* C39.  In ChallengeViewer, once the document has loaded with numPages    *)
(* >= 1, currentPage is an integer with 1 <= currentPage <= numPages after *)
(* any sequence of Previous and Next clicks and for any value restored     *)
(* from localStorage (missing, non-numeric, below 1, fractional or larger  *)
(* than numPages); Previous at page 1 and Next at the last page leave the  *)
(* page unchanged.  The initializer accepts any number >= 1: a stored      *)
(* "2.5" is kept, and Previous takes 1.5 to 0.5.                           *)
(***************************************************************************)
C39_CurrentPageInRange ==
  (probe.kind = "viewer" /\ probe.numPages >= 1)
    => /\ probe.currentPage.den # 0
       /\ probe.currentPage.num % probe.currentPage.den = 0
       /\ RatLeq(Whole(1), probe.currentPage)
       /\ RatLeq(probe.currentPage, Whole(probe.numPages))

====
